---- MODULE Spec2Model ----
(***************************************************************************)
(* A model of the gaas-gateway request data path (src/main.py and          *)
(* src/app/*.py): key directory, token-bucket limiter, proxy pipeline,     *)
(* request-hash commitments and Merkle batching.                           *)
(*                                                                         *)
(* Conventions                                                             *)
(*  - Tables are functions from row id to row.  SQLite allocates           *)
(*    max(rowid)+1 for an INTEGER PRIMARY KEY, which NextId follows.       *)
(*  - Time (time.time(), datetime.now) is one integer clock of seconds.    *)
(*  - Real numbers are exact rationals: a bucket's token count is kept in  *)
(*    units of 1/window, so tokens = tokens_w / window.                    *)
(*  - secrets.token_urlsafe(32) yields a value never produced before.      *)
(*  - SHA-256 is a collision-free constructor: strings are sequences of   *)
(*    integers and the digest of a string is the string behind its length. *)
(*  - A gateway process runs one event loop; several processes may share   *)
(*    the database, each with a rate-limit store of its own.               *)
(***************************************************************************)
EXTENDS Integers, Sequences, FiniteSets, TLC

(* ------------------------------ bounds -------------------------------- *)
\* Clock advances per behaviour.
MaxTicks == 3
\* Takes recorded by an observation (the record stops, the count goes on).
MaxLog == 5
\* Limiter calls per behaviour.
MaxTakes == 5
\* Services that exist at one time, and secrets ever generated.
MaxServices == 2
MaxSecrets == 3
\* Proxy requests per behaviour.
MaxReqs == 2
\* Gateway processes (uvicorn workers) that share the database.
MaxWorkers == 2
\* MERKLE_BATCH_SIZE, which the deployment sets in its environment.
MERKLE_BATCH_SIZE == 2
\* Proxied requests of the key answered before the first state of a
\* specification that starts from a key with a history.
PriorRequests == 6
\* Calls of check_rate_limit followed step by step.
MaxTasks == 2

(* ------------------------- program constants -------------------------- *)
RATE_LIMIT_CAPACITY == 10
RATE_LIMIT_WINDOW == 60
None == 0
\* price_per_request, in thousandths of a dollar
DefaultPrice == 1
\* bot_threshold, in hundredths
DefaultThreshold == 70

(* ------------------------------ state --------------------------------- *)
VARIABLES
    now,               \* the wall clock, in seconds
    ticks,             \* number of clock advances so far (bounds the run)
    takes,             \* number of limiter calls so far (bounds the run)
    next_secret,       \* secrets.token_urlsafe: the next fresh secret
    users,             \* table users
    services,          \* table services
    service_configs,   \* table service_configs, by service_id (unique)
    api_keys,          \* table api_keys
    usage_logs,        \* table usage_logs
    bot_logs,          \* table bot_detection_logs
    request_hashes,    \* table request_hashes
    merkle_roots,      \* table merkle_roots
    rate_limit_store,  \* _rate_limit_store of each process: bucket key -> bucket
    obs,               \* an observed window of one bucket: its start, its first
                       \* MaxLog takes <<time, allowed>> and its admissions
    reqs,              \* the proxy requests, by request number
    batchers,          \* per process, the request whose response it is processing
                       \* and the rows its batch closure has read
    verify_resp,       \* the last answer of GET /transparency/verify/{batch_id}
    revoked,           \* the secrets of the keys revoked so far (history)
    calc,              \* a function of the program applied to inputs: its name,
                       \* the inputs and, once computed, the result
    reconfigured,      \* the secrets whose effective limits changed since the
                       \* last limiter decision for them (history)
    tasks,             \* calls of check_rate_limit under way, step by step
    lock,              \* per process, the call that holds _rate_limit_lock
    chain,             \* the registry contract: whether the chain is reachable
                       \* and confirms, the batch ids it holds, the submitted
                       \* transactions not yet mined, and every anchorMerkleRoot
                       \* transaction the gateway has submitted (history)
    me_calls           \* every call of GET /me/api-key in order of arrival, with
                       \* its response once it is answered (history)

clock == <<now, ticks, takes>>
config_tables == <<next_secret, users, services, service_configs, api_keys>>
log_tables == <<usage_logs, bot_logs>>
hash_tables == <<request_hashes, merkle_roots>>
limiter == <<rate_limit_store, obs>>
vars == <<now, ticks, takes, next_secret, users, services, service_configs, api_keys,
          usage_logs, bot_logs, request_hashes, merkle_roots,
          rate_limit_store, obs, reqs, batchers, verify_resp, revoked, calc,
          reconfigured, tasks, lock, chain, me_calls>>

Empty == [i \in {} |-> 0]
\* The gateway processes.
Workers == 1..MaxWorkers
\* A process that is not processing an upstream response.
Idle == [on |-> FALSE]
\* No function is being applied.
NoCalc == [fn |-> "none"]
\* The registry contract before any batch was anchored, the chain in reach.
NoChain == [up |-> TRUE, anchored |-> {}, pending |-> {}, sent |-> <<>>]

Max(S) == CHOOSE x \in S : \A y \in S : y <= x
Min2(a, b) == IF a <= b THEN a ELSE b
NextId(table) == IF DOMAIN table = {} THEN 1 ELSE Max(DOMAIN table) + 1
Extend(table, id, row) == [i \in DOMAIN table \cup {id} |-> IF i = id THEN row ELSE table[i]]
Restrict(table, ids) == [i \in ids |-> table[i]]

(* --------------------------- key directory ---------------------------- *)
\* db.query(ApiKey).filter(ApiKey.key == k, ApiKey.is_active == True).first()
ActiveKeyIds(keys, k) == {i \in DOMAIN keys : keys[i].key = k /\ keys[i].is_active}
HasActiveKey(k) == ActiveKeyIds(api_keys, k) # {}
ActiveKeyId(k) == CHOOSE i \in ActiveKeyIds(api_keys, k) : TRUE
ActiveKey(k) == api_keys[ActiveKeyId(k)]
\* db.query(User).filter(User.api_key == k).first()
UserIdsOf(k) == {u \in DOMAIN users : users[u].api_key = k}

(* ------------------------------ limiter ------------------------------- *)
\* (mutant) the limiter knows the global default only.
LimitsInDefault(keys, k) == <<RATE_LIMIT_CAPACITY, RATE_LIMIT_WINDOW>>

\* The effective <<capacity, window>> of a presented key, given table api_keys.
LimitsIn(keys, k) ==
    LET ids == ActiveKeyIds(keys, k)
        row == keys[CHOOSE i \in ids : TRUE]
    IN IF ids # {}
          /\ row.rate_limit_requests # None
          /\ row.rate_limit_window_seconds # None
       THEN <<row.rate_limit_requests, row.rate_limit_window_seconds>>
       ELSE <<RATE_LIMIT_CAPACITY, RATE_LIMIT_WINDOW>>

EffectiveLimits(k) == LimitsIn(api_keys, k)

BucketKey(k, lim) == <<k, lim[1], lim[2]>>

\* A bucket right after its initialisation: tokens = capacity, last_refill = now.
FreshBucket(capacity, window, t) ==
    [tokens_w |-> capacity * window, last_refill |-> t,
     capacity |-> capacity, window |-> window]

\* The bucket the call works on: the stored one, or a new one.
BucketAt(store, k, lim, t) ==
    IF BucketKey(k, lim) \in DOMAIN store /\ store[BucketKey(k, lim)].capacity = lim[1]
    THEN store[BucketKey(k, lim)]
    ELSE FreshBucket(lim[1], lim[2], t)

\* (mutant) the refill without the cap at capacity.
RefilledNoCap(b, capacity, t) == b.tokens_w + (t - b.last_refill) * b.capacity

\* tokens after the refill, in units of 1/window.
Refilled(b, capacity, t) ==
    Min2(capacity * b.window, b.tokens_w + (t - b.last_refill) * b.capacity)

\* (mutant) a take needs more than one token.
TakeAllowedStrict(b, capacity, t) ==
    Min2(capacity * b.window, b.tokens_w + (t - b.last_refill) * b.capacity) > b.window

TakeAllowed(b, capacity, t) == Refilled(b, capacity, t) >= b.window

\* (mutant) an admitted take leaves the refilled amount in the bucket.
TakeOneRefunded(b, capacity, t) ==
    [b EXCEPT !.tokens_w = Refilled(b, capacity, t), !.last_refill = t]

TakeOne(b, capacity, t) ==
    [b EXCEPT !.tokens_w = IF TakeAllowed(b, capacity, t)
                           THEN Refilled(b, capacity, t) - b.window
                           ELSE Refilled(b, capacity, t),
              !.last_refill = t]

\* check_rate_limit(api_key, db): the decision and the store it leaves.
check_rate_limit(store, k, t) ==
    LET lim == EffectiveLimits(k)
        b == BucketAt(store, k, lim, t)
    IN [allowed |-> TakeAllowed(b, lim[1], t),
        store |-> Extend(store, BucketKey(k, lim), TakeOne(b, lim[1], t)),
        bucket_key |-> BucketKey(k, lim)]

(* --------------------- limiter, one call step by step ----------------- *)
\* (mutant) the locked section is entered whoever holds the lock.
LockIgnored(w) == TRUE

\* _rate_limit_lock of process w is not held.
LockFree(w) == lock[w] = None

\* check_rate_limit(k) is called in process w: the limits are read from the
\* key row, and the call comes to "async with _rate_limit_lock".
take_begin(w, k) ==
    /\ NextId(tasks) <= MaxTasks
    /\ tasks' = Extend(tasks, NextId(tasks),
                       [worker |-> w, api_key |-> k, lim |-> EffectiveLimits(k),
                        pc |-> "wait", at |-> 0, found |-> 0, allowed |-> FALSE,
                        start |-> takes, end |-> 0])
    /\ UNCHANGED <<clock, config_tables, log_tables, hash_tables, limiter, reqs, batchers,
                   verify_resp, revoked, calc, reconfigured, lock, chain,
                 me_calls>>

\* Call t acquires the lock, reads the time and its bucket and refills it.
take_acquire(t) ==
    /\ t \in DOMAIN tasks
    /\ tasks[t].pc = "wait"
    /\ LockFree(tasks[t].worker)
    /\ lock' = [lock EXCEPT ![tasks[t].worker] = t]
    /\ LET b == BucketAt(rate_limit_store[tasks[t].worker], tasks[t].api_key, tasks[t].lim, now)
       IN tasks' = [tasks EXCEPT ![t].pc = "locked", ![t].at = now,
                                 ![t].found = Refilled(b, tasks[t].lim[1], now)]
    /\ UNCHANGED <<clock, config_tables, log_tables, hash_tables, limiter, reqs, batchers,
                   verify_resp, revoked, calc, reconfigured, chain,
                 me_calls>>

\* Call t decides, writes the bucket back and releases the lock.
take_commit(t) ==
    /\ t \in DOMAIN tasks
    /\ tasks[t].pc = "locked"
    /\ takes < MaxTakes
    /\ takes' = takes + 1
    /\ LET w == tasks[t].worker
           lim == tasks[t].lim
           ok == tasks[t].found >= lim[2]
       IN /\ rate_limit_store' =
                [rate_limit_store EXCEPT ![w] =
                    Extend(@, BucketKey(tasks[t].api_key, lim),
                           [tokens_w |-> IF ok THEN tasks[t].found - lim[2] ELSE tasks[t].found,
                            last_refill |-> tasks[t].at,
                            capacity |-> lim[1], window |-> lim[2]])]
          /\ tasks' = [tasks EXCEPT ![t].pc = "done", ![t].allowed = ok, ![t].end = takes + 1]
          /\ lock' = [lock EXCEPT ![w] = None]
    /\ reconfigured' = reconfigured \ {tasks[t].api_key}
    /\ UNCHANGED <<now, ticks, config_tables, log_tables, hash_tables, obs, reqs, batchers,
                   verify_resp, revoked, calc, chain,
                 me_calls>>

(* --------------------------- control plane ---------------------------- *)
NoObs == [on |-> FALSE]
\* The observed window ends when the limits of its key change.
ObsUnder(keys) ==
    IF obs.on /\ LimitsIn(keys, obs.key) # <<obs.capacity, obs.window>> THEN NoObs ELSE obs

NewKey(secret, service_id) ==
    [key |-> secret, service_id |-> service_id, is_active |-> TRUE,
     rate_limit_requests |-> None, rate_limit_window_seconds |-> None,
     price_per_request |-> DefaultPrice, total_cost |-> 0]

\* POST /register-api
register_api ==
    /\ NextId(services) <= MaxServices
    /\ IF DOMAIN users = {}
       THEN /\ next_secret <= MaxSecrets
            /\ users' = Extend(users, 1, [api_key |-> next_secret, api_key_revealed |-> FALSE])
            /\ next_secret' = next_secret + 1
       ELSE UNCHANGED <<users, next_secret>>
    /\ services' = Extend(services, NextId(services),
                          [owner_id |-> IF DOMAIN users = {} THEN 1
                                        ELSE CHOOSE u \in DOMAIN users : \A v \in DOMAIN users : u <= v,
                           target_ok |-> TRUE,
                           watermarking_enabled |-> FALSE])
    /\ UNCHANGED <<clock, service_configs, api_keys, log_tables, hash_tables,
                   limiter, reqs, batchers, verify_resp, revoked, calc, reconfigured, tasks, lock, chain,
                 me_calls>>

\* POST /services/{service_id}/keys
create_service_api_key(service_id) ==
    /\ service_id \in DOMAIN services
    /\ next_secret <= MaxSecrets
    /\ api_keys' = Extend(api_keys, NextId(api_keys), NewKey(next_secret, service_id))
    /\ next_secret' = next_secret + 1
    /\ obs' = ObsUnder(api_keys')
    /\ UNCHANGED <<clock, users, services, service_configs, log_tables, hash_tables,
                   rate_limit_store, reqs, batchers, verify_resp, revoked, calc, reconfigured, tasks, lock, chain,
                 me_calls>>

\* PATCH /services/{service_id}/keys/{key_id}/revoke
revoke_service_api_key(service_id, key_id) ==
    /\ service_id \in DOMAIN services
    /\ key_id \in DOMAIN api_keys
    /\ api_keys[key_id].service_id = service_id
    /\ api_keys' = [api_keys EXCEPT ![key_id].is_active = FALSE]
    /\ revoked' = revoked \cup {api_keys[key_id].key}
    /\ obs' = ObsUnder(api_keys')
    /\ UNCHANGED <<clock, next_secret, users, services, service_configs, log_tables,
                   hash_tables, rate_limit_store, reqs, batchers, verify_resp, calc, reconfigured, tasks, lock, chain,
                 me_calls>>

\* PUT /api-keys/{key_id}/rate-limit
update_api_key_rate_limit(key_id, requests, window_seconds) ==
    /\ requests > 0
    /\ window_seconds > 0
    /\ key_id \in DOMAIN api_keys
    /\ api_keys' = [api_keys EXCEPT ![key_id].rate_limit_requests = requests,
                                    ![key_id].rate_limit_window_seconds = window_seconds]
    /\ obs' = ObsUnder(api_keys')
    /\ reconfigured' = reconfigured \cup
           {k \in {api_keys[key_id].key} : LimitsIn(api_keys', k) # LimitsIn(api_keys, k)}
    /\ UNCHANGED <<clock, next_secret, users, services, service_configs, log_tables,
                   hash_tables, rate_limit_store, reqs, batchers, verify_resp, revoked, calc,
                   tasks, lock, chain,
                 me_calls>>

\* PUT /api-keys/{key_id}/pricing and PUT /billing/api-keys/{key_id}/price
update_api_key_pricing(key_id, price) ==
    /\ price > 0
    /\ key_id \in DOMAIN api_keys
    /\ api_keys' = [api_keys EXCEPT ![key_id].price_per_request = price]
    /\ UNCHANGED <<clock, next_secret, users, services, service_configs, log_tables,
                   hash_tables, limiter, reqs, batchers, verify_resp, revoked, calc, reconfigured, tasks, lock, chain,
                 me_calls>>

\* PUT /services/{service_id}/bot-blocking
update_bot_blocking(service_id, enabled) ==
    /\ service_id \in DOMAIN services
    /\ service_configs' =
           IF service_id \in DOMAIN service_configs
           THEN [service_configs EXCEPT ![service_id].block_bots_enabled = enabled]
           ELSE Extend(service_configs, service_id,
                       [block_bots_enabled |-> enabled, bot_threshold |-> DefaultThreshold])
    /\ UNCHANGED <<clock, next_secret, users, services, api_keys, log_tables,
                   hash_tables, limiter, reqs, batchers, verify_resp, revoked, calc, reconfigured, tasks, lock, chain,
                 me_calls>>

\* POST /services/{service_id}/watermarking
toggle_watermarking(service_id, enabled) ==
    /\ service_id \in DOMAIN services
    /\ services' = [services EXCEPT ![service_id].watermarking_enabled = enabled]
    /\ UNCHANGED <<clock, next_secret, users, service_configs, api_keys, log_tables,
                   hash_tables, limiter, reqs, batchers, verify_resp, revoked, calc, reconfigured, tasks, lock, chain,
                 me_calls>>

\* DELETE /services/{service_id}
delete_service(service_id) ==
    /\ service_id \in DOMAIN services
    /\ api_keys' = Restrict(api_keys, {i \in DOMAIN api_keys : api_keys[i].service_id # service_id})
    /\ usage_logs' = Restrict(usage_logs, {i \in DOMAIN usage_logs : usage_logs[i].service_id # service_id})
    /\ bot_logs' = Restrict(bot_logs, {i \in DOMAIN bot_logs : bot_logs[i].service_id # service_id})
    /\ service_configs' = Restrict(service_configs, DOMAIN service_configs \ {service_id})
    /\ services' = Restrict(services, DOMAIN services \ {service_id})
    /\ obs' = ObsUnder(api_keys')
    /\ UNCHANGED <<clock, next_secret, users, hash_tables, rate_limit_store,
                   reqs, batchers, verify_resp, revoked, calc, reconfigured, tasks, lock, chain,
                 me_calls>>

\* The clock advances by d seconds.
Tick(d) ==
    /\ ticks < MaxTicks
    /\ now' = now + d
    /\ ticks' = ticks + 1
    /\ UNCHANGED <<takes, config_tables, log_tables, hash_tables, limiter, reqs, batchers, verify_resp, revoked, calc, reconfigured, tasks, lock, chain,
                 me_calls>>

(* ------------------------- limiter, as a step ------------------------- *)
\* What a call of check_rate_limit(k) in process w at the current instant
\* leaves behind.  The observed bucket is one of process 1.
LimiterEffects(w, k) ==
    LET res == check_rate_limit(rate_limit_store[w], k, now)
    IN /\ takes < MaxTakes
       /\ takes' = takes + 1
       /\ reconfigured' = reconfigured \ {k}
       /\ rate_limit_store' = [rate_limit_store EXCEPT ![w] = res.store]
       /\ obs' = IF obs.on /\ w = 1 /\ res.bucket_key = <<obs.key, obs.capacity, obs.window>>
                  THEN [obs EXCEPT !.count = IF res.allowed THEN @ + 1 ELSE @,
                                   !.log = IF Len(@) < MaxLog
                                           THEN Append(@, <<now, res.allowed>>) ELSE @]
                  ELSE obs

\* A proxy request presenting k that has passed authentication, the scope
\* check and bot detection reaches the limiter (proxy_get, line 917).
LimiterCall(k) ==
    /\ HasActiveKey(k) \/ UserIdsOf(k) # {}
    /\ LimiterEffects(1, k)
    /\ UNCHANGED <<now, ticks, config_tables, log_tables, hash_tables, reqs, batchers,
                   verify_resp, revoked, calc, tasks, lock, chain,
                 me_calls>>

\* Start observing the bucket of k from the current instant on; fresh tells
\* whether the bucket is yet to be created.
ObsStart(k) ==
    /\ ~obs.on
    /\ HasActiveKey(k) \/ UserIdsOf(k) # {}
    /\ obs' = [on |-> TRUE, key |-> k, capacity |-> EffectiveLimits(k)[1],
               window |-> EffectiveLimits(k)[2], start |-> now, count |-> 0,
               fresh |-> BucketKey(k, EffectiveLimits(k)) \notin DOMAIN rate_limit_store[1],
               log |-> <<>>]
    /\ UNCHANGED <<clock, config_tables, log_tables, hash_tables, rate_limit_store,
                   reqs, batchers, verify_resp, revoked, calc, reconfigured, tasks, lock, chain,
                 me_calls>>

(* --------------------------- bot detection ---------------------------- *)
\* Scores are in hundredths; the three signals are in tenths.
\* analyze_request_rate: UsageLog rows of the key in the last 60 s.
analyze_request_rate(k) ==
    LET n == Cardinality({i \in DOMAIN usage_logs :
                            usage_logs[i].api_key = k /\ usage_logs[i].timestamp >= now - 60})
    IN IF n <= 5 THEN 0 ELSE IF n <= 10 THEN 3 ELSE IF n <= 20 THEN 6 ELSE 9

\* analyze_header_entropy: one minus the share of the five expected headers
\* that are present, plus 0.3 (at most 1.0) when the request has fewer than
\* five headers.
analyze_header_entropy(present_headers, few_headers) ==
    LET entropy_score == 10 - (present_headers * 10) \div 5
    IN IF few_headers THEN Min2(10, entropy_score + 3) ELSE entropy_score

\* calculate_bot_score: 0.5 ua + 0.3 rate + 0.2 header, clamped to [0, 1].
calculate_bot_score(ua_score, header_score, k) ==
    LET raw == ua_score * 5 + analyze_request_rate(k) * 3 + header_score * 2
    IN Min2(100, IF raw < 0 THEN 0 ELSE raw)

\* (mutant) the lower boundary belongs to human traffic.
classify_traffic_inclusive(bot_score) ==
    IF bot_score <= 30 THEN "human" ELSE IF bot_score < 70 THEN "suspicious" ELSE "bot"

classify_traffic(bot_score) ==
    IF bot_score < 30 THEN "human" ELSE IF bot_score < 70 THEN "suspicious" ELSE "bot"

\* (mutant) a score equal to the threshold is not blocked.
should_block_above(bot_score, block_enabled, threshold) ==
    IF ~block_enabled
    THEN IF classify_traffic(bot_score) = "bot" THEN <<FALSE, "flagged">> ELSE <<FALSE, "allowed">>
    ELSE IF bot_score > threshold THEN <<TRUE, "blocked">>
    ELSE IF classify_traffic(bot_score) = "suspicious" THEN <<FALSE, "flagged">>
    ELSE <<FALSE, "allowed">>

\* should_block(bot_score, block_enabled, threshold): <<should_block, action_taken>>
should_block(bot_score, block_enabled, threshold) ==
    IF ~block_enabled
    THEN IF classify_traffic(bot_score) = "bot" THEN <<FALSE, "flagged">> ELSE <<FALSE, "allowed">>
    ELSE IF bot_score >= threshold THEN <<TRUE, "blocked">>
    ELSE IF classify_traffic(bot_score) = "suspicious" THEN <<FALSE, "flagged">>
    ELSE <<FALSE, "allowed">>

(* ----------------------------- proxy: entry --------------------------- *)
\* The X-API-Key header is absent.
NoKey == 0

\* (mutant) authentication by any key row, active or not.
get_current_user_any_row(k) ==
    IF k = NoKey THEN FALSE
    ELSE \/ \E i \in DOMAIN api_keys :
              /\ api_keys[i].key = k
              /\ api_keys[i].service_id \in DOMAIN services
              /\ services[api_keys[i].service_id].owner_id \in DOMAIN users
         \/ UserIdsOf(k) # {}

\* get_current_user: TRUE when a user is returned, FALSE on HTTP 401.
get_current_user(k) ==
    IF k = NoKey THEN FALSE
    ELSE \/ /\ HasActiveKey(k)
            /\ ActiveKey(k).service_id \in DOMAIN services
            /\ services[ActiveKey(k).service_id].owner_id \in DOMAIN users
         \/ UserIdsOf(k) # {}

\* (mutant) the scope check without the comparison of service ids.
validate_any_service(k, service_id) ==
    IF ~HasActiveKey(k)
    THEN \E u \in UserIdsOf(k) :
            service_id \in DOMAIN services /\ services[service_id].owner_id = u
    ELSE TRUE

validate_api_key_for_service(k, service_id) ==
    IF ~HasActiveKey(k)
    THEN \E u \in UserIdsOf(k) :
            service_id \in DOMAIN services /\ services[service_id].owner_id = u
    ELSE ActiveKey(k).service_id = service_id

\* The Session of a request (sessionmaker(autocommit=False)): a query begins
\* a transaction when none is open, commit, rollback and close end it.
\* Whether a transaction is open after the operations ops, in order.
RECURSIVE SessionAfter(_, _)
SessionAfter(open, ops) ==
    IF ops = <<>> THEN open
    ELSE SessionAfter(Head(ops) = "query", Tail(ops))

\* What proxy_get and proxy_request do with the Session from the first line
\* of the handler up to the point where the request ends or suspends on the
\* upstream call: the Service query; validate_api_key_for_service; the
\* UsageLog count of calculate_bot_score and the ServiceConfig query; the
\* commit of the BotDetectionLog row, or the rollback; the ApiKey query of
\* check_rate_limit; the reload of service.target_url, expired by the commit.
\* A raised HTTPException ends the request and get_db closes the Session.
HandlerSessionOps(detail, log_failed) ==
    LET classified == <<"query", "query", "query", "query",
                        IF log_failed THEN "rollback" ELSE "commit">>
    IN CASE detail = "service" -> <<"query", "close">>
         [] detail = "scope" -> <<"query", "query", "close">>
         [] detail = "bot" -> classified \o <<"close">>
         [] detail = "limiter" -> classified \o <<"query", "close">>
         [] detail = "target" -> classified \o <<"query", "query", "close">>
         [] OTHER -> classified \o <<"query", "query">>

\* A request as it arrives: its inputs, and where it stands.
NewRequest(w, k, service_id, ua_score, header_score) ==
    [pc |-> "new", worker |-> w, api_key |-> k, service_id |-> service_id,
     ua_score |-> ua_score, header_score |-> header_score,
     status |-> 0, detail |-> "", dispatched |-> FALSE, outcome |-> "",
     key_resolved |-> FALSE, key_id |-> None, body |-> "", failed |-> {},
     in_transaction |-> FALSE, loaded |-> None]

\* A proxy request arrives at process w and its dependency get_current_user is resolved.
proxy_arrive(w, k, service_id, ua_score, header_score) ==
    /\ NextId(reqs) <= MaxReqs
    /\ reqs' = Extend(reqs, NextId(reqs),
                      IF get_current_user(k)
                      THEN [NewRequest(w, k, service_id, ua_score, header_score)
                                EXCEPT !.pc = "authed",
                                       !.in_transaction = SessionAfter(@, <<"query">>)]
                      ELSE [NewRequest(w, k, service_id, ua_score, header_score)
                                EXCEPT !.pc = "done", !.status = 401, !.detail = "auth",
                                       !.in_transaction = SessionAfter(@, <<"query", "close">>)])
    /\ UNCHANGED <<clock, config_tables, log_tables, hash_tables, limiter, batchers, verify_resp, revoked, calc, reconfigured, tasks, lock, chain,
                 me_calls>>

\* (mutant) a response whose watermark could not be injected has no body.
ResponseBodyDropped(q, failed) ==
    IF "watermark" \in failed THEN ""
    ELSE IF /\ q.service_id \in DOMAIN services
            /\ services[q.service_id].watermarking_enabled
            /\ q.key_resolved
    THEN "watermarked" ELSE "upstream"

\* (mutant) the handler goes on to the limiter whatever should_block says.
HandlerResultBlockIgnored(q) ==
    LET k == q.api_key
        bot_score == calculate_bot_score(q.ua_score, q.header_score, k)
        block_enabled == IF q.service_id \in DOMAIN service_configs
                         THEN service_configs[q.service_id].block_bots_enabled ELSE FALSE
        decision == should_block(bot_score, block_enabled, DefaultThreshold)
        base == [status |-> 0, detail |-> "", bot_score |-> bot_score,
                 classification |-> classify_traffic(bot_score), action_taken |-> decision[2]]
    IN IF q.service_id \notin DOMAIN services
       THEN [base EXCEPT !.status = 404, !.detail = "service"]
       ELSE IF ~validate_api_key_for_service(k, q.service_id)
       THEN [base EXCEPT !.status = 403, !.detail = "scope"]
       ELSE IF ~check_rate_limit(rate_limit_store[q.worker], k, now).allowed
       THEN [base EXCEPT !.status = 429, !.detail = "limiter"]
       ELSE IF ~services[q.service_id].target_ok
       THEN [base EXCEPT !.status = 500, !.detail = "target"]
       ELSE [base EXCEPT !.detail = "upstream"]

\* Where the body of proxy_get (and proxy_post, proxy_put, proxy_delete) and
\* the first lines of proxy_request end for request q: the HTTP status of the
\* first failing check, or the dispatch to the upstream.
HandlerResult(q) ==
    LET k == q.api_key
        bot_score == calculate_bot_score(q.ua_score, q.header_score, k)
        block_enabled == IF q.service_id \in DOMAIN service_configs
                         THEN service_configs[q.service_id].block_bots_enabled ELSE FALSE
        decision == should_block(bot_score, block_enabled, DefaultThreshold)
        base == [status |-> 0, detail |-> "", bot_score |-> bot_score,
                 classification |-> classify_traffic(bot_score), action_taken |-> decision[2]]
    IN IF q.service_id \notin DOMAIN services
       THEN [base EXCEPT !.status = 404, !.detail = "service"]
       ELSE IF ~validate_api_key_for_service(k, q.service_id)
       THEN [base EXCEPT !.status = 403, !.detail = "scope"]
       ELSE IF decision[1]
       THEN [base EXCEPT !.status = 403, !.detail = "bot"]
       ELSE IF ~check_rate_limit(rate_limit_store[q.worker], k, now).allowed
       THEN [base EXCEPT !.status = 429, !.detail = "limiter"]
       ELSE IF ~services[q.service_id].target_ok
       THEN [base EXCEPT !.status = 500, !.detail = "target"]
       ELSE [base EXCEPT !.detail = "upstream"]

\* The handler body runs for an authenticated request r, up to the dispatch;
\* log_failed tells whether the commit of the BotDetectionLog row raises.
HandlerStep(r, log_failed) ==
    /\ r \in DOMAIN reqs
    /\ reqs[r].pc = "authed"
    /\ batchers[reqs[r].worker] = Idle
    /\ LET q == reqs[r]
           res == HandlerResult(q)
       IN /\ reqs' = [reqs EXCEPT ![r].pc = IF res.detail = "upstream" THEN "upstream" ELSE "done",
                                  ![r].status = res.status,
                                  ![r].detail = res.detail,
                                  ![r].dispatched = (res.detail = "upstream"),
                                  ![r].failed = IF log_failed THEN {"bot_log"} ELSE {},
                                  ![r].in_transaction =
                                      SessionAfter(@, HandlerSessionOps(res.detail, log_failed))]
          /\ bot_logs' = IF res.detail \in {"service", "scope"} \/ log_failed
                         THEN bot_logs
                         ELSE Extend(bot_logs, NextId(bot_logs),
                                     [service_id |-> q.service_id, api_key |-> q.api_key,
                                      bot_score |-> res.bot_score,
                                      classification |-> res.classification,
                                      action_taken |-> res.action_taken,
                                      timestamp |-> now])
          /\ IF res.detail \in {"limiter", "target", "upstream"}
             THEN LimiterEffects(q.worker, q.api_key)
             ELSE UNCHANGED <<takes, rate_limit_store, obs, reconfigured>>
    /\ UNCHANGED <<now, ticks, config_tables, usage_logs, hash_tables, batchers, verify_resp,
                   revoked, calc, tasks, lock, chain,
                 me_calls>>

\* The handler body with a database that accepts the BotDetectionLog row.
proxy_handler(r) == HandlerStep(r, FALSE)

\* The handler body of a request that reaches classification, with a
\* database that refuses the BotDetectionLog row: rollback, and on.
proxy_handler_log_failure(r) ==
    /\ r \in DOMAIN reqs
    /\ HandlerResult(reqs[r]).detail \notin {"service", "scope"}
    /\ HandlerStep(r, TRUE)

(* -------------------------- transparency log -------------------------- *)
\* hashlib.sha256(data).hexdigest(), collision-free: the digest of a string
\* is the string with its length in front.
Sha256(data) == <<Len(data)>> \o data

\* SHA-256 of "service_id|api_key_id|timestamp_iso|request_path|response_status"
compute_request_hash(service_id, api_key_id, timestamp, request_path, response_status) ==
    Sha256(<<service_id, api_key_id, timestamp, request_path, response_status>>)

\* (mutant) the last element of a level of odd length goes up as it is.
RECURSIVE MerkleLevelOddCarried(_)
MerkleLevelOddCarried(level) ==
    IF Len(level) = 0 THEN <<>>
    ELSE IF Len(level) = 1 THEN <<level[1]>>
    ELSE <<Sha256(level[1] \o level[2])>> \o MerkleLevelOddCarried(SubSeq(level, 3, Len(level)))

\* One level of the tree: adjacent pairs, the last element paired with itself.
RECURSIVE MerkleLevel(_)
MerkleLevel(level) ==
    IF Len(level) = 0 THEN <<>>
    ELSE IF Len(level) = 1 THEN <<Sha256(level[1] \o level[1])>>
    ELSE <<Sha256(level[1] \o level[2])>> \o MerkleLevel(SubSeq(level, 3, Len(level)))

RECURSIVE MerkleReduce(_)
MerkleReduce(level) ==
    IF Len(level) = 1 THEN level[1] ELSE MerkleReduce(MerkleLevel(level))

\* build_merkle_tree(hashes); the empty string is the empty sequence.
build_merkle_tree(hashes) ==
    IF Len(hashes) = 0 THEN <<>>
    ELSE IF Len(hashes) = 1 THEN hashes[1]
    ELSE MerkleReduce(hashes)

Range(s) == {s[i] : i \in 1..Len(s)}

\* ORDER BY timestamp ASC over the rows ids of table hashes: every order of
\* the rows in which timestamps ascend (rows of equal timestamp come in any
\* order, the query names no second sort key).
TimestampOrders(hashes, ids) ==
    {s \in [1..Cardinality(ids) -> ids] :
        /\ \A i, j \in 1..Cardinality(ids) : i # j => s[i] # s[j]
        /\ \A i, j \in 1..Cardinality(ids) :
              i < j => hashes[s[i]].timestamp <= hashes[s[j]].timestamp}

\* compute_and_store_merkle_root, the query: the unbatched rows, oldest
\* first, LIMIT MERKLE_BATCH_SIZE.
SelectUnbatched(hashes) ==
    LET ids == {i \in DOMAIN hashes : hashes[i].merkle_batch_id = None}
    IN {SubSeq(s, 1, Min2(Len(s), MERKLE_BATCH_SIZE)) : s \in TimestampOrders(hashes, ids)}

\* An optional timestamp that is not set; <<t>> is one set to t.
NoTime == <<>>

\* compute_and_store_merkle_root, after the query returned the rows sel: the
\* tables it commits (over remembers the rows the root was computed over and
\* receipt how the anchoring of the batch ended; they are no columns of the
\* table).
StoreRoot(hashes, roots, sel) ==
    IF Len(sel) < MERKLE_BATCH_SIZE
    THEN [request_hashes |-> hashes, merkle_roots |-> roots]
    ELSE LET id == NextId(roots)
         IN [request_hashes |->
                 [i \in DOMAIN hashes |->
                     IF i \in Range(sel) THEN [hashes[i] EXCEPT !.merkle_batch_id = id]
                     ELSE hashes[i]],
             merkle_roots |->
                 Extend(roots, id,
                        [merkle_root |-> build_merkle_tree([i \in 1..Len(sel) |-> hashes[sel[i]].hash]),
                         start_time |-> hashes[sel[1]].timestamp,
                         end_time |-> hashes[sel[Len(sel)]].timestamp,
                         request_count |-> Len(sel),
                         is_anchored |-> FALSE, tx_hash |-> None, block_number |-> None,
                         anchored_at |-> NoTime, over |-> Range(sel), receipt |-> "none"])]

\* How BlockchainAnchor.anchor_merkle_root ends: anchoring is disabled, an
\* RPC call raises, the contract says the batch id is anchored already, the
\* receipt shows a revert, the wait for the receipt times out, or the
\* receipt shows success.
AnchorOutcomes == {"disabled", "rpc_error", "already", "revert", "timeout", "confirmed"}

\* (mutant) a transaction that was sent counts as anchored, whatever its receipt.
anchor_merkle_root_sent(outcome, batch_id) ==
    IF outcome \in {"confirmed", "revert", "timeout"}
    THEN [sent |-> TRUE, tx_hash |-> batch_id, block_number |-> batch_id]
    ELSE [sent |-> FALSE]

\* BlockchainAnchor.anchor_merkle_root: the transaction and its block for a
\* successful receipt, nothing (sent is false) for every other end.
anchor_merkle_root(outcome, batch_id) ==
    IF outcome = "confirmed"
    THEN [sent |-> TRUE, tx_hash |-> batch_id, block_number |-> batch_id]
    ELSE [sent |-> FALSE]

\* compute_and_store_merkle_root from the call of anchor_merkle_root on, for
\* the batch id it has just committed: the table merkle_roots it leaves.
\* commit_failed tells whether the commit of the anchoring columns raises.
AnchorBatch(roots, id, outcome, commit_failed) ==
    LET result == anchor_merkle_root(outcome, id)
    IN IF ~result.sent \/ commit_failed
       THEN [roots EXCEPT ![id].receipt = outcome]
       ELSE [roots EXCEPT ![id].is_anchored = TRUE,
                          ![id].tx_hash = result.tx_hash,
                          ![id].block_number = result.block_number,
                          ![id].anchored_at = <<now>>,
                          ![id].receipt = outcome]

\* anchor_merkle_root sends a transaction unless anchoring is disabled, an
\* RPC call raises before the transaction is sent, or isBatchAnchored
\* answers true.
Submits(outcome) == outcome \in {"revert", "timeout", "confirmed"}

\* (mutant) the transaction is sent without asking isBatchAnchored.
AnchorOutcomeWithoutCheck(c, id, outcome) ==
    /\ outcome # "already"
    /\ ~c.up => outcome \in {"disabled", "rpc_error"}

\* The ends anchor_merkle_root can take for batch id with the contract in
\* state c: isBatchAnchored(id) answers true exactly when the contract
\* holds the id, and then nothing is sent; with the chain out of reach the
\* first RPC call raises.
AnchorOutcomePossible(c, id, outcome) ==
    /\ outcome = "already" => id \in c.anchored
    /\ Submits(outcome) => id \notin c.anchored
    /\ ~c.up => outcome \in {"disabled", "rpc_error"}

\* The contract after anchor_merkle_root for batch id ended with outcome.
ChainAfter(c, id, outcome) ==
    [c EXCEPT !.sent = IF Submits(outcome) THEN Append(@, id) ELSE @,
              !.anchored = IF outcome = "confirmed" THEN @ \cup {id} ELSE @,
              !.pending = IF outcome = "timeout" THEN @ \cup {id} ELSE @]

\* The path every modelled request asks for.
RequestPath == 1

\* The RequestHash row proxy_request adds for request r of key row key_id
\* (req remembers the request, it is no column of the table).
HashRow(r, key_id, response_status) ==
    [service_id |-> reqs[r].service_id, api_key_id |-> key_id, timestamp |-> now,
     request_path |-> RequestPath, response_status |-> response_status,
     hash |-> compute_request_hash(reqs[r].service_id, key_id, now, RequestPath, response_status),
     merkle_batch_id |-> None, req |-> r]

\* GET /transparency/verify/{batch_id}
verify_merkle_batch(batch_id) ==
    /\ batch_id \in DOMAIN merkle_roots
    /\ LET ids == {i \in DOMAIN request_hashes : request_hashes[i].merkle_batch_id = batch_id}
       IN \E s \in TimestampOrders(request_hashes, ids) :
             verify_resp' = [on |-> TRUE, batch_id |-> batch_id,
                             hashes |-> [i \in 1..Len(s) |-> request_hashes[s[i]].hash],
                             expected_root |-> merkle_roots[batch_id].merkle_root,
                             request_count |-> Len(s)]
    /\ UNCHANGED <<clock, config_tables, log_tables, hash_tables, limiter, reqs, batchers, revoked, calc, reconfigured, tasks, lock, chain,
                 me_calls>>

(* -------------------------- proxy: the response ----------------------- *)
\* The handler of request r runs in its process only while that process is
\* not in the middle of processing a response (one event loop per process).
LoopFree(r) == batchers[reqs[r].worker] = Idle

\* proxy_request, the UsageLog row and the billing update of a 2xx response:
\* the tables it commits.  A key row deleted in the meantime fails the
\* update, and the rollback takes the UsageLog row with it.
UsageAndBilling(logs, keys, q, response_status) ==
    IF response_status < 200 \/ response_status >= 300
       \/ (q.key_resolved /\ q.key_id \notin DOMAIN keys)
    THEN [usage_logs |-> logs, api_keys |-> keys]
    ELSE [usage_logs |-> Extend(logs, NextId(logs),
                                [service_id |-> q.service_id, api_key |-> q.api_key,
                                 timestamp |-> now]),
          api_keys |-> IF q.key_resolved
                       THEN [keys EXCEPT ![q.key_id].total_cost = @ + keys[q.key_id].price_per_request]
                       ELSE keys]

\* The request r once the upstream answered response_status.
Answered(r, response_status) ==
    [reqs[r] EXCEPT !.status = response_status, !.outcome = "response",
                    !.key_resolved = HasActiveKey(reqs[r].api_key),
                    !.key_id = IF HasActiveKey(reqs[r].api_key)
                               THEN ActiveKeyId(reqs[r].api_key) ELSE None]

\* The steps of proxy_request after the upstream response that may raise:
\* the commit of the RequestHash row, compute_and_store_merkle_root up to its
\* commit, the commit of the anchoring columns, the commit of the UsageLog
\* row with the billing update, the injection of the watermark.
ResponseFaults == {"hash", "batch", "anchor_commit", "usage", "watermark"}

\* The body returned with an upstream response.
ResponseBody(q, failed) ==
    IF /\ q.service_id \in DOMAIN services
       /\ services[q.service_id].watermarking_enabled
       /\ q.key_resolved
       /\ "watermark" \notin failed
    THEN "watermarked" ELSE "upstream"

\* proxy_request from the upstream response to its return, in a deployment
\* of one process: nothing interleaves with it.  The steps in failed raise,
\* and anchoring ends as anchor says.
ResponseStep(r, response_status, failed, anchor) ==
    /\ r \in DOMAIN reqs
    /\ reqs[r].pc = "upstream"
    /\ LoopFree(r)
    /\ LET q == Answered(r, response_status)
           hash_stored == q.key_resolved /\ "hash" \notin failed
           hashes == IF hash_stored
                     THEN Extend(request_hashes, NextId(request_hashes),
                                 HashRow(r, q.key_id, response_status))
                     ELSE request_hashes
           ub == IF "usage" \in failed
                 THEN [usage_logs |-> usage_logs, api_keys |-> api_keys]
                 ELSE UsageAndBilling(usage_logs, api_keys, q, response_status)
       IN /\ \E sel \in SelectUnbatched(hashes) :
                LET st == IF hash_stored /\ "batch" \notin failed
                          THEN StoreRoot(hashes, merkle_roots, sel)
                          ELSE [request_hashes |-> hashes, merkle_roots |-> merkle_roots]
                    closed == DOMAIN st.merkle_roots \ DOMAIN merkle_roots
                IN /\ request_hashes' = st.request_hashes
                   /\ \A id \in closed : AnchorOutcomePossible(chain, id, anchor)
                   /\ merkle_roots' = IF closed = {} THEN st.merkle_roots
                                      ELSE AnchorBatch(st.merkle_roots,
                                                       CHOOSE id \in closed : TRUE,
                                                       anchor, "anchor_commit" \in failed)
                   /\ chain' = IF closed = {} THEN chain
                               ELSE ChainAfter(chain, CHOOSE id \in closed : TRUE, anchor)
          /\ usage_logs' = ub.usage_logs
          /\ api_keys' = ub.api_keys
          /\ reqs' = [reqs EXCEPT ![r] = [q EXCEPT !.pc = "done",
                                                   !.body = ResponseBody(q, failed),
                                                   !.failed = @ \cup failed,
                                                   !.in_transaction =
                                                       SessionAfter(@, <<"query", "close">>)]]
    /\ UNCHANGED <<clock, next_secret, users, services, service_configs, bot_logs,
                   limiter, batchers, verify_resp, revoked, calc, reconfigured, tasks, lock,
                 me_calls>>

\* The same with a database that accepts every commit and with anchoring
\* disabled (ENABLE_BLOCKCHAIN_ANCHORING is false unless set).
proxy_response(r, response_status) == ResponseStep(r, response_status, {}, "disabled")

\* The same where some steps raise and anchoring is enabled or not.
proxy_response_env(r, response_status, failed, anchor) ==
    /\ failed # {} \/ anchor # "disabled"
    /\ ResponseStep(r, response_status, failed, anchor)

\* (mutant) every transport error is a bad gateway.
TransportStatusBadGateway(error) == 502

\* The except clauses around the upstream dispatch, in order:
\* httpx.TimeoutException ("timeout", connect and read timeouts are
\* subclasses), httpx.ConnectError ("connect"), any other httpx.RequestError
\* ("request").
TransportStatus(error) ==
    IF error = "timeout" THEN 504
    ELSE IF error = "connect" THEN 502
    ELSE 502

\* The upstream dispatch of request r raises httpx.TimeoutException
\* ("timeout"), httpx.ConnectError ("connect") or another httpx.RequestError
\* ("request"): proxy_request raises HTTP 504, 502, 502.
proxy_transport_error(r, error) ==
    /\ r \in DOMAIN reqs
    /\ reqs[r].pc = "upstream"
    /\ LoopFree(r)
    /\ reqs' = [reqs EXCEPT ![r] = [Answered(r, TransportStatus(error))
                                        EXCEPT !.pc = "done", !.outcome = error,
                                               !.in_transaction = SessionAfter(@, <<"close">>)]]
    /\ UNCHANGED <<clock, config_tables, log_tables, hash_tables, limiter,
                   batchers, verify_resp, revoked, calc, reconfigured, tasks, lock, chain,
                 me_calls>>

(* ------------- proxy: the response, processes side by side ------------ *)
\* proxy_request from the upstream response to the commit of the RequestHash
\* row.  Each commit and each query is a step of its own from here on, so
\* that the steps of two processes interleave on the database they share.
response_commit_hash(r, response_status) ==
    /\ r \in DOMAIN reqs
    /\ reqs[r].pc = "upstream"
    /\ LoopFree(r)
    /\ LET q == Answered(r, response_status)
       IN /\ request_hashes' = IF q.key_resolved
                               THEN Extend(request_hashes, NextId(request_hashes),
                                           HashRow(r, q.key_id, response_status))
                               ELSE request_hashes
          /\ reqs' = [reqs EXCEPT ![r] = [q EXCEPT !.pc = IF q.key_resolved THEN "select"
                                                          ELSE "usage"]]
    /\ batchers' = [batchers EXCEPT ![reqs[r].worker] = [on |-> TRUE, req |-> r, sel |-> <<>>]]
    /\ UNCHANGED <<clock, config_tables, log_tables, merkle_roots, limiter,
                   verify_resp, revoked, calc, reconfigured, tasks, lock, chain,
                 me_calls>>

\* compute_and_store_merkle_root, the query for the unbatched rows.
batch_select(r) ==
    /\ r \in DOMAIN reqs
    /\ reqs[r].pc = "select"
    /\ \E sel \in SelectUnbatched(request_hashes) :
          batchers' = [batchers EXCEPT ![reqs[r].worker].sel = sel]
    /\ reqs' = [reqs EXCEPT ![r].pc = "write"]
    /\ UNCHANGED <<clock, config_tables, log_tables, hash_tables, limiter,
                   verify_resp, revoked, calc, reconfigured, tasks, lock, chain,
                 me_calls>>

\* compute_and_store_merkle_root, from the length test to the commit.
batch_write(r) ==
    /\ r \in DOMAIN reqs
    /\ reqs[r].pc = "write"
    /\ LET st == StoreRoot(request_hashes, merkle_roots, batchers[reqs[r].worker].sel)
       IN /\ request_hashes' = st.request_hashes
          /\ merkle_roots' = st.merkle_roots
    /\ reqs' = [reqs EXCEPT ![r].pc = "usage"]
    /\ UNCHANGED <<clock, config_tables, log_tables, limiter, batchers,
                   verify_resp, revoked, calc, reconfigured, tasks, lock, chain,
                 me_calls>>

\* proxy_request, the UsageLog and billing commit, and the return.
response_usage(r) ==
    /\ r \in DOMAIN reqs
    /\ reqs[r].pc = "usage"
    /\ LET ub == UsageAndBilling(usage_logs, api_keys, reqs[r], reqs[r].status)
       IN /\ usage_logs' = ub.usage_logs
          /\ api_keys' = ub.api_keys
    /\ reqs' = [reqs EXCEPT ![r].pc = "done", ![r].body = ResponseBody(reqs[r], {}),
                             ![r].in_transaction = SessionAfter(@, <<"commit", "close">>)]
    /\ batchers' = [batchers EXCEPT ![reqs[r].worker] = Idle]
    /\ UNCHANGED <<clock, next_secret, users, services, service_configs, bot_logs,
                   hash_tables, limiter, verify_resp, revoked, calc, reconfigured, tasks, lock, chain,
                 me_calls>>

(* --------------------------- initial states --------------------------- *)

\* The state after init_db() on a new database file.
Init ==
    /\ now = 0 /\ ticks = 0 /\ takes = 0 /\ next_secret = 1
    /\ users = Empty /\ services = Empty /\ service_configs = Empty /\ api_keys = Empty
    /\ usage_logs = Empty /\ bot_logs = Empty
    /\ request_hashes = Empty /\ merkle_roots = Empty
    /\ rate_limit_store = [w \in Workers |-> Empty] /\ obs = NoObs
    /\ reqs = Empty /\ batchers = [w \in Workers |-> Idle]
    /\ verify_resp = [on |-> FALSE] /\ revoked = {}
    /\ reconfigured = {} /\ tasks = Empty /\ lock = [w \in Workers |-> None]
    /\ chain = NoChain /\ me_calls = <<>> /\ calc = NoCalc

\* The state after POST /register-api and POST /services/1/keys:
\* one user (secret 1), service 1, and its key 1 (secret 2).
OneKeyDatabase ==
    /\ now = 0 /\ ticks = 0 /\ takes = 0 /\ next_secret = 3
    /\ users = Extend(Empty, 1, [api_key |-> 1, api_key_revealed |-> FALSE])
    /\ services = Extend(Empty, 1, [owner_id |-> 1, target_ok |-> TRUE,
                                     watermarking_enabled |-> FALSE])
    /\ service_configs = Empty
    /\ api_keys = Extend(Empty, 1, NewKey(2, 1))
    /\ usage_logs = Empty /\ bot_logs = Empty
    /\ request_hashes = Empty /\ merkle_roots = Empty
    /\ rate_limit_store = [w \in Workers |-> Empty] /\ obs = NoObs
    /\ reqs = Empty /\ batchers = [w \in Workers |-> Idle]
    /\ verify_resp = [on |-> FALSE] /\ revoked = {}
    /\ reconfigured = {} /\ tasks = Empty /\ lock = [w \in Workers |-> None]
    /\ chain = NoChain /\ me_calls = <<>>

InitOneKey == OneKeyDatabase /\ calc = NoCalc

\* The state after POST /register-api twice and POST /services/1/keys:
\* one user (secret 1), services 1 and 2, and key 1 (secret 2) of service 1.
InitTwoServices ==
    /\ now = 0 /\ ticks = 0 /\ takes = 0 /\ next_secret = 3
    /\ users = Extend(Empty, 1, [api_key |-> 1, api_key_revealed |-> FALSE])
    /\ services = [i \in {1, 2} |-> [owner_id |-> 1, target_ok |-> TRUE,
                                      watermarking_enabled |-> FALSE]]
    /\ service_configs = Empty
    /\ api_keys = Extend(Empty, 1, NewKey(2, 1))
    /\ usage_logs = Empty /\ bot_logs = Empty
    /\ request_hashes = Empty /\ merkle_roots = Empty
    /\ rate_limit_store = [w \in Workers |-> Empty] /\ obs = NoObs
    /\ reqs = Empty /\ batchers = [w \in Workers |-> Idle]
    /\ verify_resp = [on |-> FALSE] /\ revoked = {}
    /\ reconfigured = {} /\ tasks = Empty /\ lock = [w \in Workers |-> None]
    /\ chain = NoChain /\ me_calls = <<>> /\ calc = NoCalc

(* ------------------------ limiter specification ----------------------- *)
\* The limits PUT /api-keys/{id}/rate-limit is called with.
RateInputs == {<<3, 60>>, <<1, 2>>}
\* The clock advances by one of these steps, in seconds.
TickSteps == {1, 20}

NextLimiter ==
    \/ \E d \in TickSteps : Tick(d)
    \/ LimiterCall(2)
    \/ ObsStart(2)
    \/ \E lim \in RateInputs : update_api_key_rate_limit(1, lim[1], lim[2])

SpecLimiter == InitOneKey /\ [][NextLimiter]_vars

(* ------------------------- gateway specifications -------------------- *)
\* What the requests of the model present and ask for: the secrets of the
\* first two service keys; services 1 and 2 and a service that never exists.
SecretInputs == {2, 3}
ServiceInputs == {1, 2, 3}
KeyIdInputs == 1..MaxSecrets
\* analyze_user_agent of a browser, analyze_header_entropy of a full header set.
UAInputs == {1}
HeaderInputs == {0}
PriceInputs == {2}
\* What the upstream answers.
StatusInputs == {200, 404}
ErrorInputs == {"timeout", "connect", "request"}

\* One gateway process and two services: keys are created and revoked,
\* service 2 is deleted, and requests present a service key to any service.
Next ==
    \/ \E service_id \in 1..MaxServices : create_service_api_key(service_id)
    \/ \E service_id \in 1..MaxServices, key_id \in KeyIdInputs :
            revoke_service_api_key(service_id, key_id)
    \/ delete_service(2)
    \/ \E k \in SecretInputs, service_id \in ServiceInputs, ua \in UAInputs, h \in HeaderInputs :
            proxy_arrive(1, k, service_id, ua, h)
    \/ \E r \in 1..MaxReqs : proxy_handler(r)
    \/ \E r \in 1..MaxReqs : proxy_response(r, 200)

Spec == InitTwoServices /\ [][Next]_vars

\* One gateway process and one service: its keys are created, reconfigured,
\* repriced and revoked while requests present them.
NextRevoke ==
    \/ create_service_api_key(1)
    \/ \E key_id \in KeyIdInputs : revoke_service_api_key(1, key_id)
    \/ update_api_key_rate_limit(1, 1, 2)
    \/ \E price \in PriceInputs : update_api_key_pricing(1, price)
    \/ \E k \in SecretInputs, ua \in UAInputs, h \in HeaderInputs : proxy_arrive(1, k, 1, ua, h)
    \/ \E r \in 1..MaxReqs : proxy_handler(r)
    \/ \E r \in 1..MaxReqs : proxy_response(r, 200)

SpecRevoke == InitOneKey /\ [][NextRevoke]_vars

(* ---------------------- transparency specifications ------------------ *)
\* One gateway process and one service with one key: requests with the
\* service key (secret 2), the user key (secret 1) or no key, answered or
\* failed by the upstream, and the verification endpoint.
NextLog ==
    \/ Tick(1)
    \/ \E k \in {NoKey, 1, 2}, ua \in UAInputs, h \in HeaderInputs : proxy_arrive(1, k, 1, ua, h)
    \/ \E r \in 1..MaxReqs : proxy_handler(r)
    \/ \E r \in 1..MaxReqs, st \in StatusInputs : proxy_response(r, st)
    \/ \E r \in 1..MaxReqs, e \in ErrorInputs : proxy_transport_error(r, e)
    \/ \E batch_id \in 1..MaxReqs : verify_merkle_batch(batch_id)

SpecLog == InitOneKey /\ [][NextLog]_vars

\* Several gateway processes on one database: requests with the service key,
\* the steps of their response processing interleaved across processes.
NextWorkers ==
    \/ Tick(1)
    \/ \E w \in Workers, ua \in UAInputs, h \in HeaderInputs : proxy_arrive(w, 2, 1, ua, h)
    \/ \E r \in 1..MaxReqs : proxy_handler(r)
    \/ \E r \in 1..MaxReqs, st \in StatusInputs : response_commit_hash(r, st)
    \/ \E r \in 1..MaxReqs : batch_select(r)
    \/ \E r \in 1..MaxReqs : batch_write(r)
    \/ \E r \in 1..MaxReqs : response_usage(r)

SpecWorkers == InitOneKey /\ [][NextWorkers]_vars

(* ------------------------------ C3, C4 -------------------------------- *)
CeilDiv(a, b) == (a + b - 1) \div b

TakeStep ==
    takes' = takes + 1 =>
      \E p \in Workers : \E bk \in DOMAIN rate_limit_store'[p] :
        LET C == bk[2]
            w == bk[3]
            store == rate_limit_store[p]
            fresh == bk \notin DOMAIN store
            before == IF fresh THEN C * w ELSE store[bk].tokens_w
            elapsed == IF fresh THEN 0 ELSE now - store[bk].last_refill
            refilled == Min2(C * w, before + elapsed * C)
        IN /\ \A o \in Workers \ {p} : rate_limit_store'[o] = rate_limit_store[o]
           /\ \A o \in DOMAIN rate_limit_store'[p] \ {bk} :
                o \in DOMAIN store /\ rate_limit_store'[p][o] = store[o]
           /\ rate_limit_store'[p][bk].last_refill = now
           /\ rate_limit_store'[p][bk].tokens_w =
                IF refilled >= w THEN refilled - w ELSE refilled
           /\ (obs.on /\ p = 1 /\ bk = <<obs.key, obs.capacity, obs.window>> /\ Len(obs.log) < MaxLog)
                => obs'.log = Append(obs.log, <<now, refilled >= w>>)

\* The takes on a bucket created under observation: at the instant of creation
\* exactly the first C are allowed; and with C = 3, window = 60, after four
\* takes at the same instant a take 20 s later is allowed.
FreshBurst ==
    (obs.on /\ obs.fresh) =>
        /\ \A i \in 1..Len(obs.log) :
              (\A j \in 1..i : obs.log[j][1] = obs.log[1][1])
                  => (obs.log[i][2] <=> i <= obs.capacity)
        /\ (/\ obs.capacity = 3 /\ obs.window = 60 /\ Len(obs.log) >= 5
            /\ \A j \in 1..4 : obs.log[j][1] = obs.log[1][1]
            /\ obs.log[5][1] = obs.log[1][1] + 20) => obs.log[5][2]

\* C4: take-one protocol.  A fresh bucket of capacity C holds C tokens; each
\* take refills, then allows and subtracts exactly 1 iff the refilled tokens
\* are >= 1, and otherwise denies and keeps the refilled amount; so C takes at
\* one instant are allowed, the next is denied, and with C = 3, window = 60 a
\* take 20 s later is allowed.
C4_TakeOne == [][TakeStep]_vars /\ []FreshBurst

\* allow, allow, allow, deny at one instant, then allow 20 s later.
C4_Witness ==
    /\ obs.on /\ obs.fresh /\ obs.capacity = 3 /\ obs.window = 60
    /\ Len(obs.log) = 5
    /\ \A j \in 1..4 : obs.log[j][1] = obs.log[1][1]
    /\ obs.log[5][1] = obs.log[1][1] + 20
    /\ obs.log[3][2] /\ ~obs.log[4][2] /\ obs.log[5][2]

(* ------------------------------ C1, C2 -------------------------------- *)
Is2xx(status) == status >= 200 /\ status < 300

\* The handler decides request r in this step.
Decided(r) == r \in DOMAIN reqs /\ reqs[r].pc = "authed" /\ reqs'[r].pc # "authed"

ScopeStep ==
    \A r \in DOMAIN reqs :
        (Decided(r) /\ HasActiveKey(reqs[r].api_key)) =>
            IF ActiveKey(reqs[r].api_key).service_id # reqs[r].service_id
            THEN /\ ~reqs'[r].dispatched
                 /\ reqs'[r].pc = "done"
                 /\ reqs'[r].status = IF reqs[r].service_id \in DOMAIN services THEN 403 ELSE 404
            ELSE reqs'[r].detail \notin {"service", "scope"}

ScopeInv ==
    \A r \in DOMAIN reqs :
        (reqs[r].dispatched \/ Is2xx(reqs[r].status)) =>
            /\ reqs[r].dispatched
            /\ \A i \in DOMAIN api_keys :
                  api_keys[i].key = reqs[r].api_key => api_keys[i].service_id = reqs[r].service_id

\* C1: scope enforcement.  A proxy request to service B that presents an
\* active service-level key bound to service A # B is never dispatched upstream
\* and never answered 2xx (it is answered 403 when B exists); the same key
\* presented to service A passes the service lookup and the scope check.
C1_Scope == [][ScopeStep]_vars /\ []ScopeInv

\* One active key was answered 403 on a foreign service and 200 on its own.
C1_Witness ==
    \E r, q \in DOMAIN reqs :
        /\ HasActiveKey(reqs[r].api_key)
        /\ reqs[q].api_key = reqs[r].api_key
        /\ reqs[r].service_id # ActiveKey(reqs[r].api_key).service_id
        /\ reqs[r].service_id \in DOMAIN services
        /\ reqs[r].status = 403 /\ reqs[r].detail = "scope"
        /\ reqs[q].service_id = ActiveKey(reqs[r].api_key).service_id
        /\ reqs[q].status = 200

RevokedStep ==
    \A r \in DOMAIN reqs' \ DOMAIN reqs :
        reqs'[r].api_key \in revoked =>
            reqs'[r].status = 401 /\ reqs'[r].pc = "done" /\ ~reqs'[r].dispatched

NeverReactivated ==
    \A i \in DOMAIN api_keys \cap DOMAIN api_keys' :
        (api_keys'[i].key = api_keys[i].key /\ ~api_keys[i].is_active) => ~api_keys'[i].is_active

RevokedInv ==
    /\ \A i \in DOMAIN api_keys : api_keys[i].key \in revoked => ~api_keys[i].is_active
    /\ \A u \in DOMAIN users : users[u].api_key \notin revoked

\* C2: revocation is permanent.  Once a service-level key is revoked, every
\* proxy request that arrives afterwards with its secret is answered 401,
\* whatever the control plane does later, and no step sets is_active back
\* to true.
C2_Revocation == [][RevokedStep /\ NeverReactivated]_vars /\ []RevokedInv

\* A revoked secret was answered 401 while a key created after the revoked
\* one is active and the revoked key carries a rate-limit override.
C2_Witness ==
    \E r \in DOMAIN reqs : \E i, j \in DOMAIN api_keys :
        /\ reqs[r].api_key \in revoked
        /\ reqs[r].status = 401
        /\ api_keys[j].key = reqs[r].api_key
        /\ api_keys[j].rate_limit_requests # None
        /\ i > j /\ api_keys[i].is_active

(* ------------------------------ C5 - C10 ------------------------------ *)
RowsOfBatch(b) == {i \in DOMAIN request_hashes : request_hashes[i].merkle_batch_id = b}

\* C5: batch membership.  For every MerkleRoot row B, the RequestHash rows
\* whose merkle_batch_id is B.id number exactly B.request_count, which is
\* MERKLE_BATCH_SIZE (a row has one merkle_batch_id, so it is counted once).
C5_Membership ==
    \A b \in DOMAIN merkle_roots :
        /\ Cardinality(RowsOfBatch(b)) = merkle_roots[b].request_count
        /\ merkle_roots[b].request_count = MERKLE_BATCH_SIZE

\* C6: batch verifiability.  The root stored for a batch equals
\* build_merkle_tree of the hashes in the order in which
\* GET /transparency/verify/{batch_id} returns them.
C6_Verifiable ==
    verify_resp.on => build_merkle_tree(verify_resp.hashes) = verify_resp.expected_root

\* C7: no overlapping batches.  No two MerkleRoot rows are computed over a
\* common RequestHash row.
C7_NoOverlap ==
    \A a, b \in DOMAIN merkle_roots :
        a # b => merkle_roots[a].over \cap merkle_roots[b].over = {}

WriteOnce ==
    \A i \in DOMAIN request_hashes :
        /\ i \in DOMAIN request_hashes'
        /\ request_hashes[i].merkle_batch_id # None => request_hashes'[i] = request_hashes[i]
        /\ [request_hashes'[i] EXCEPT !.merkle_batch_id = None] = request_hashes[i]
             \/ request_hashes'[i] = request_hashes[i]

\* C8: write-once batch assignment.  merkle_batch_id of a RequestHash row
\* starts null, is set at most once and never changes again; no other field
\* of the row ever changes.
C8_WriteOnce ==
    [][WriteOnce]_vars
      /\ [][\A i \in DOMAIN request_hashes' \ DOMAIN request_hashes :
               request_hashes'[i].merkle_batch_id = None]_vars

RowsOfRequest(r) == {i \in DOMAIN request_hashes : request_hashes[i].req = r}

\* C9: one commitment per proxied request.  A request that was dispatched
\* upstream and whose key resolved has exactly one RequestHash row, with the
\* request's service_id and api_key_id and the status returned to the caller;
\* a request rejected before dispatch has none.
C9_OneCommitment ==
    \A r \in DOMAIN reqs :
        reqs[r].pc = "done" =>
            IF reqs[r].dispatched /\ reqs[r].key_resolved
            THEN /\ Cardinality(RowsOfRequest(r)) = 1
                 /\ \A i \in RowsOfRequest(r) :
                       /\ request_hashes[i].service_id = reqs[r].service_id
                       /\ request_hashes[i].api_key_id = reqs[r].key_id
                       /\ request_hashes[i].response_status = reqs[r].status
            ELSE reqs[r].dispatched \/ RowsOfRequest(r) = {}

\* C10: an upstream timeout is committed.  A request whose upstream dispatch
\* timed out (and whose key resolves) is answered 504 and has a RequestHash
\* row with response_status 504.
C10_TimeoutCommitted ==
    \A r \in DOMAIN reqs :
        (reqs[r].outcome = "timeout" /\ reqs[r].key_resolved) =>
            /\ reqs[r].status = 504
            /\ \E i \in RowsOfRequest(r) : request_hashes[i].response_status = 504

(* ------------------------------ C11 - C20 ----------------------------- *)
\* The response (or the transport error) of request r is processed in this step.
Completes(r) == r \in DOMAIN reqs /\ reqs[r].pc = "upstream" /\ reqs'[r].pc = "done"

\* The rows of table api_keys that carry the secret k, active or revoked.
KeyRows(k) == {i \in DOMAIN api_keys : api_keys[i].key = k}

UsageBillingStep ==
    \A r \in DOMAIN reqs :
        Completes(r) =>
            LET added == DOMAIN usage_logs' \ DOMAIN usage_logs
            IN IF Is2xx(reqs'[r].status)
               THEN /\ Cardinality(added) = 1
                    /\ \A i \in added : /\ usage_logs'[i].api_key = reqs[r].api_key
                                        /\ usage_logs'[i].service_id = reqs[r].service_id
                    /\ \A i \in DOMAIN usage_logs : usage_logs'[i] = usage_logs[i]
                    /\ \A i \in KeyRows(reqs[r].api_key) :
                          /\ i \in DOMAIN api_keys'
                          /\ api_keys'[i].total_cost =
                                 api_keys[i].total_cost + api_keys[i].price_per_request
               ELSE /\ usage_logs' = usage_logs
                    /\ \A i \in DOMAIN api_keys :
                          i \in DOMAIN api_keys' /\ api_keys'[i].total_cost = api_keys[i].total_cost

\* C11: usage and billing move together.  When a response with a 2xx status
\* is processed, exactly one UsageLog row is appended and the total_cost of the
\* request's key grows by its price_per_request; for any other outcome neither
\* UsageLog nor any total_cost changes.
C11_UsageBilling == [][UsageBillingStep]_vars

\* The requests that arrive in this step.
Arriving == DOMAIN reqs' \ DOMAIN reqs

\* The status the checks give request q in the order service lookup (404),
\* authentication (401), scope (403), bot blocking (403), limiter (429);
\* 0 when every check passes.
FirstFailingCheck(q) ==
    IF q.service_id \notin DOMAIN services THEN 404
    ELSE IF ~get_current_user(q.api_key) THEN 401
    ELSE IF ~validate_api_key_for_service(q.api_key, q.service_id) THEN 403
    ELSE IF should_block(calculate_bot_score(q.ua_score, q.header_score, q.api_key),
                         q.service_id \in DOMAIN service_configs
                             /\ service_configs[q.service_id].block_bots_enabled,
                         DefaultThreshold)[1] THEN 403
    ELSE IF ~check_rate_limit(rate_limit_store[q.worker], q.api_key, now).allowed THEN 429
    ELSE 0

CheckOrderStep ==
    /\ \A r \in Arriving :
          reqs'[r].pc = "done" => reqs'[r].status = FirstFailingCheck(reqs'[r])
    /\ \A r \in DOMAIN reqs :
          Decided(r) => /\ reqs'[r].status = FirstFailingCheck(reqs[r])
                        /\ reqs'[r].dispatched <=> FirstFailingCheck(reqs[r]) = 0

\* C12: pipeline check order.  A proxy request is answered with the status of
\* the first failing check in the order service lookup (404), authentication
\* (401), scope (403), bot blocking (403), limiter (429): an unknown service
\* with a missing or invalid key gives 404, an invalid key to an existing
\* service gives 401.
C12_CheckOrder == [][CheckOrderStep]_vars


(* ------------------- the bot decision as a function ------------------- *)
\* Scores and thresholds in hundredths, over the whole range [0, 1].
ScoreInputs == 0..100
ThresholdInputs == {0, 30, 50, 70, 90, 100}

\* should_block is about to be applied to some score, setting and threshold.
InitShouldBlock ==
    /\ OneKeyDatabase
    /\ calc \in [fn : {"should_block"}, bot_score : ScoreInputs, block_enabled : BOOLEAN,
                 threshold : ThresholdInputs, done : {FALSE},
                 classification : {"none"}, result : {<<FALSE, "none">>}]

apply_should_block ==
    /\ calc.fn = "should_block" /\ ~calc.done
    /\ calc' = [calc EXCEPT !.done = TRUE,
                            !.classification = classify_traffic(calc.bot_score),
                            !.result = should_block(calc.bot_score, calc.block_enabled,
                                                    calc.threshold)]
    /\ UNCHANGED <<clock, takes, next_secret, users, config_tables, log_tables, hash_tables,
                   rate_limit_store, obs, reqs, batchers, verify_resp, revoked, reconfigured, tasks, lock, chain,
                 me_calls>>

SpecShouldBlock == InitShouldBlock /\ [][apply_should_block]_vars

\* C13: with blocking disabled nothing is blocked and the action is "flagged"
\* for a bot and "allowed" otherwise; with blocking enabled the request is
\* blocked iff score >= threshold, and when it is not blocked the action is
\* "flagged" for suspicious and "allowed" for human traffic; the request is
\* rejected iff the action is "blocked".
C13_DecisionTable ==
    (calc.fn = "should_block" /\ calc.done) =>
        LET blocked == calc.result[1]
            action == calc.result[2]
        IN /\ ~calc.block_enabled =>
                /\ ~blocked
                /\ action = IF calc.classification = "bot" THEN "flagged" ELSE "allowed"
           /\ calc.block_enabled =>
                /\ blocked <=> calc.bot_score >= calc.threshold
                /\ (~blocked /\ calc.classification = "suspicious") => action = "flagged"
                /\ (~blocked /\ calc.classification = "human") => action = "allowed"
           /\ blocked <=> action = "blocked"

C13_Witness ==
    /\ calc.fn = "should_block" /\ calc.done /\ calc.block_enabled
    /\ calc.bot_score = calc.threshold /\ calc.threshold = 50
    /\ calc.result = <<TRUE, "blocked">> /\ calc.classification = "suspicious"


(* ------------------------ bot blocking specification ------------------ *)
\* The RequestHash row of an earlier request of key 1 to service 1, answered
\* 200 at time 0.
PriorHashRow ==
    [service_id |-> 1, api_key_id |-> 1, timestamp |-> 0,
     request_path |-> RequestPath, response_status |-> 200,
     hash |-> compute_request_hash(1, 1, 0, RequestPath, 200),
     merkle_batch_id |-> None, req |-> None]

\* The transparency log after n such requests, one after the other.
RECURSIVE PriorLog(_)
PriorLog(n) ==
    IF n = 0 THEN [request_hashes |-> Empty, merkle_roots |-> Empty]
    ELSE LET p == PriorLog(n - 1)
             hashes == Extend(p.request_hashes, n, PriorHashRow)
             sel == CHOOSE s \in SelectUnbatched(hashes) :
                        \A i \in 1..(Len(s) - 1) : s[i] < s[i + 1]
         IN StoreRoot(hashes, p.merkle_roots, sel)

\* The state after POST /register-api, POST /services/1/keys and
\* PriorRequests requests GET /proxy/1 with the key (secret 2) and a browser's
\* headers, all at time 0 and all answered 200 by the upstream.
BusyKeyDatabase ==
    /\ now = 0 /\ ticks = 0 /\ takes = 0 /\ next_secret = 3
    /\ users = Extend(Empty, 1, [api_key |-> 1, api_key_revealed |-> FALSE])
    /\ services = Extend(Empty, 1, [owner_id |-> 1, target_ok |-> TRUE,
                                     watermarking_enabled |-> FALSE])
    /\ api_keys = Extend(Empty, 1, [NewKey(2, 1) EXCEPT !.total_cost = PriorRequests * DefaultPrice])
    /\ usage_logs = [i \in 1..PriorRequests |-> [service_id |-> 1, api_key |-> 2, timestamp |-> 0]]
    /\ bot_logs = [i \in 1..PriorRequests |->
                      [service_id |-> 1, api_key |-> 2, bot_score |-> 5,
                       classification |-> "human", action_taken |-> "allowed", timestamp |-> 0]]
    /\ request_hashes = PriorLog(PriorRequests).request_hashes
    /\ merkle_roots = PriorLog(PriorRequests).merkle_roots
    /\ rate_limit_store =
           [w \in Workers |->
               IF w = 1
               THEN Extend(Empty, <<2, RATE_LIMIT_CAPACITY, RATE_LIMIT_WINDOW>>,
                           [FreshBucket(RATE_LIMIT_CAPACITY, RATE_LIMIT_WINDOW, 0)
                               EXCEPT !.tokens_w = (RATE_LIMIT_CAPACITY - PriorRequests)
                                                       * RATE_LIMIT_WINDOW])
               ELSE Empty]
    /\ obs = NoObs /\ reqs = Empty /\ batchers = [w \in Workers |-> Idle]
    /\ verify_resp = [on |-> FALSE] /\ revoked = {}
    /\ reconfigured = {} /\ tasks = Empty /\ lock = [w \in Workers |-> None]
    /\ chain = NoChain /\ me_calls = <<>> /\ calc = NoCalc

InitBusyKey == BusyKeyDatabase /\ service_configs = Empty

\* The signals of the requests: a browser's or a crawler's User-Agent
\* (0.1, 0.9), all or hardly any of the expected headers (0.0, 1.0).
BotUAInputs == {1, 9}
BotHeaderInputs == {0, 10}

NextBot ==
    \/ \E enabled \in BOOLEAN : update_bot_blocking(1, enabled)
    \/ \E ua \in BotUAInputs, h \in BotHeaderInputs : proxy_arrive(1, 2, 1, ua, h)
    \/ \E r \in DOMAIN reqs : proxy_handler(r)
    \/ \E r \in DOMAIN reqs : proxy_response(r, 200)

SpecBot == InitBusyKey /\ [][NextBot]_vars

\* The same database where the service_configs row of service 1 holds bot
\* blocking enabled and a bot_threshold t (no endpoint writes the column, a
\* value other than the default is written to the table directly).
InitThreshold ==
    /\ BusyKeyDatabase
    /\ \E t \in ThresholdInputs :
          service_configs = Extend(Empty, 1, [block_bots_enabled |-> TRUE, bot_threshold |-> t])

SpecThreshold == InitThreshold /\ [][NextBot]_vars

(* ------------------------------ C14, C15 ------------------------------ *)
\* Request r passed the service lookup and the scope check in this step.
Classified(r) == Decided(r) /\ reqs'[r].detail \notin {"service", "scope"}

ThresholdStep ==
    \A r \in DOMAIN reqs :
        (/\ Classified(r)
         /\ reqs[r].service_id \in DOMAIN service_configs
         /\ service_configs[reqs[r].service_id].block_bots_enabled) =>
            ((reqs'[r].status = 403 /\ reqs'[r].detail = "bot") <=>
                 calculate_bot_score(reqs[r].ua_score, reqs[r].header_score, reqs[r].api_key)
                     >= service_configs[reqs[r].service_id].bot_threshold)

\* C14: for a service with bot blocking enabled and bot_threshold t, a request
\* that reaches classification is answered 403 (bot blocked) iff its bot
\* score is >= t, whatever t is.
C14_ServiceThreshold == [][ThresholdStep]_vars


\* A request rejected by bot blocking is finished, answered 403 and was not
\* dispatched.
BlockedInv ==
    \A r \in DOMAIN reqs :
        reqs[r].detail = "bot" =>
            reqs[r].pc = "done" /\ reqs[r].status = 403 /\ ~reqs[r].dispatched

\* The step that rejects a request for its bot score touches nothing but
\* bot_logs.
BlockedFrameStep ==
    \A r \in DOMAIN reqs :
        (Decided(r) /\ reqs'[r].detail = "bot") =>
            /\ reqs'[r].status = 403 /\ ~reqs'[r].dispatched /\ reqs'[r].pc = "done"
            /\ rate_limit_store' = rate_limit_store
            /\ usage_logs' = usage_logs
            /\ request_hashes' = request_hashes /\ merkle_roots' = merkle_roots
            /\ api_keys' = api_keys
            /\ \E i \in DOMAIN bot_logs' \ DOMAIN bot_logs : bot_logs'[i].action_taken = "blocked"

\* The step that classifies a request adds one BotDetectionLog row, with the
\* score computed for the request, its classification and the action applied
\* to it; no other step writes the table.
RecordStep ==
    /\ \A r \in DOMAIN reqs :
          Classified(r) =>
              LET added == DOMAIN bot_logs' \ DOMAIN bot_logs
                  score == calculate_bot_score(reqs[r].ua_score, reqs[r].header_score,
                                               reqs[r].api_key)
              IN /\ Cardinality(added) = 1
                 /\ \A i \in DOMAIN bot_logs : bot_logs'[i] = bot_logs[i]
                 /\ \A i \in added :
                       /\ bot_logs'[i].service_id = reqs[r].service_id
                       /\ bot_logs'[i].api_key = reqs[r].api_key
                       /\ bot_logs'[i].bot_score = score
                       /\ bot_logs'[i].classification = classify_traffic(score)
                       /\ bot_logs'[i].action_taken = "blocked" <=> reqs'[r].detail = "bot"
                       /\ bot_logs'[i].action_taken \in {"blocked", "flagged", "allowed"}
    /\ (\A r \in DOMAIN reqs : ~Classified(r)) => bot_logs' = bot_logs

FaultInputs == {{f} : f \in ResponseFaults} \cup {{}, ResponseFaults}

\* No request is under way.
Quiet == \A r \in DOMAIN reqs : reqs[r].pc = "done"

\* Watermarking is switched before the first request, and the requests are
\* served one after the other.
NextFaults ==
    \/ reqs = Empty /\ toggle_watermarking(1, ~services[1].watermarking_enabled)
    \/ \E ua \in UAInputs, h \in HeaderInputs : Quiet /\ proxy_arrive(1, 2, 1, ua, h)
    \/ \E r \in DOMAIN reqs : proxy_handler(r)
    \/ \E r \in DOMAIN reqs : proxy_handler_log_failure(r)
    \/ \E r \in DOMAIN reqs : proxy_response(r, 200)
    \/ \E r \in DOMAIN reqs, failed \in FaultInputs, anchor \in AnchorOutcomes :
          proxy_response_env(r, 200, failed, anchor)

SpecFaults == InitOneKey /\ [][NextFaults]_vars

(* --------------------------------- C16 -------------------------------- *)
\* A failed BotDetectionLog write leaves no row and the handler goes on as
\* it would have.
BotLogFailureStep ==
    \A r \in DOMAIN reqs :
        (Decided(r) /\ "bot_log" \in reqs'[r].failed) =>
            /\ bot_logs' = bot_logs
            /\ reqs'[r].status = HandlerResult(reqs[r]).status
            /\ reqs'[r].detail = HandlerResult(reqs[r]).detail

\* The rows of batch id after the step, and the rows added by the step.
AssignedAfter(id) == {i \in DOMAIN request_hashes' : request_hashes'[i].merkle_batch_id = id}
AddedHashes == DOMAIN request_hashes' \ DOMAIN request_hashes

\* Whatever raised while the response of r was processed, r returns the
\* upstream response, and each side effect is there as a whole or not at all.
ResponseFailureStep ==
    \A r \in DOMAIN reqs :
        Completes(r) =>
            LET q == reqs'[r]
                closed == DOMAIN merkle_roots' \ DOMAIN merkle_roots
            IN /\ q.outcome = "response" /\ q.status \in StatusInputs
               /\ q.body \in {"upstream", "watermarked"}
               /\ "watermark" \in q.failed => q.body = "upstream"
               /\ "hash" \in q.failed =>
                     request_hashes' = request_hashes /\ merkle_roots' = merkle_roots
               /\ ("hash" \notin q.failed /\ q.key_resolved) =>
                     /\ Cardinality(AddedHashes) = 1
                     /\ \A i \in AddedHashes : request_hashes'[i].req = r
               /\ "batch" \in q.failed =>
                     /\ merkle_roots' = merkle_roots
                     /\ \A i \in DOMAIN request_hashes :
                           request_hashes'[i] = request_hashes[i]
                     /\ \A i \in AddedHashes : request_hashes'[i].merkle_batch_id = None
               /\ \A id \in closed :
                     /\ Cardinality(AssignedAfter(id)) = merkle_roots'[id].request_count
                     /\ merkle_roots'[id].is_anchored \/
                           (/\ merkle_roots'[id].tx_hash = None
                            /\ merkle_roots'[id].block_number = None
                            /\ merkle_roots'[id].anchored_at = NoTime)
               /\ "usage" \in q.failed =>
                     usage_logs' = usage_logs /\ api_keys' = api_keys
               /\ ("usage" \notin q.failed /\ Is2xx(q.status)) =>
                     Cardinality(DOMAIN usage_logs' \ DOMAIN usage_logs) = 1

\* No row stands without its counterpart: the billed amount of a key is the
\* price of its UsageLog rows, every batched row names a MerkleRoot row, and
\* every MerkleRoot row has request_count rows.
NoPartialRow ==
    /\ \A k \in DOMAIN api_keys :
          api_keys[k].total_cost =
              api_keys[k].price_per_request *
                  Cardinality({i \in DOMAIN usage_logs : usage_logs[i].api_key = api_keys[k].key})
    /\ \A i \in DOMAIN request_hashes :
          request_hashes[i].merkle_batch_id # None =>
              request_hashes[i].merkle_batch_id \in DOMAIN merkle_roots
    /\ \A id \in DOMAIN merkle_roots :
          Cardinality({i \in DOMAIN request_hashes : request_hashes[i].merkle_batch_id = id})
              = merkle_roots[id].request_count

AssignedTo(id) == {i \in DOMAIN request_hashes : request_hashes[i].merkle_batch_id = id}

\* A batch is marked anchored only on a successful receipt and then carries
\* the transaction; a batch whose anchoring did not succeed is whole and
\* marked unanchored.
AnchoredInv ==
    \A id \in DOMAIN merkle_roots :
        /\ merkle_roots[id].is_anchored =>
              /\ merkle_roots[id].receipt = "confirmed"
              /\ merkle_roots[id].tx_hash # None
              /\ merkle_roots[id].block_number # None
              /\ merkle_roots[id].anchored_at # NoTime
        /\ merkle_roots[id].receipt # "confirmed" =>
              /\ ~merkle_roots[id].is_anchored
              /\ Cardinality(AssignedTo(id)) = merkle_roots[id].request_count
              /\ merkle_roots[id].request_count = MERKLE_BATCH_SIZE

\* A batch row stays, its rows stay assigned, and is_anchored is not taken back.
AnchoredStep ==
    \A id \in DOMAIN merkle_roots :
        /\ id \in DOMAIN merkle_roots'
        /\ merkle_roots[id].is_anchored => merkle_roots'[id].is_anchored
        /\ \A i \in AssignedTo(id) :
              i \in DOMAIN request_hashes' /\ request_hashes'[i].merkle_batch_id = id

\* C20: is_anchored is true only after the anchoring transaction of the batch
\* was confirmed with a successful receipt, and then tx_hash, block_number
\* and anchored_at are set; when anchoring is disabled or fails (RPC error,
\* revert, receipt timeout) the batch row and its hash assignments stay
\* committed with is_anchored false; is_anchored never returns to false.
C20_AnchoringSafe == []AnchoredInv /\ [][AnchoredStep]_vars

C20_Witness ==
    \E id \in DOMAIN merkle_roots :
        /\ merkle_roots[id].is_anchored /\ merkle_roots[id].receipt = "confirmed"
        /\ merkle_roots[id].tx_hash # None /\ merkle_roots[id].anchored_at = <<now>>
        /\ Cardinality(AssignedTo(id)) = MERKLE_BATCH_SIZE


(* ------------------------------ C17, C18 ------------------------------ *)
\* The limits in force for secret k: the override of its active key row when
\* both fields are set, 10 requests per 60 s otherwise.
LimitsInForce(k) ==
    LET ids == {i \in DOMAIN api_keys : api_keys[i].key = k /\ api_keys[i].is_active}
    IN IF \E i \in ids : /\ api_keys[i].rate_limit_requests # None
                         /\ api_keys[i].rate_limit_window_seconds # None
       THEN LET i == CHOOSE j \in ids : TRUE
            IN <<api_keys[i].rate_limit_requests, api_keys[i].rate_limit_window_seconds>>
       ELSE <<10, 60>>

\* The secrets limiter decisions are taken for.
TakerKeys == {api_keys[i].key : i \in DOMAIN api_keys}

\* A limiter decision is taken on the bucket of the limits in force, with
\* their capacity and their refill rate capacity / window.
InForceStep ==
    takes' = takes + 1 =>
      \E p \in Workers, k \in TakerKeys :
        LET C == LimitsInForce(k)[1]
            w == LimitsInForce(k)[2]
            bk == <<k, C, w>>
            store == rate_limit_store[p]
            fresh == bk \notin DOMAIN store
            before == IF fresh THEN C * w ELSE store[bk].tokens_w
            elapsed == IF fresh THEN 0 ELSE now - store[bk].last_refill
            refilled == Min2(C * w, before + elapsed * C)
        IN /\ bk \in DOMAIN rate_limit_store'[p]
           /\ \A o \in DOMAIN rate_limit_store'[p] \ {bk} :
                o \in DOMAIN store /\ rate_limit_store'[p][o] = store[o]
           /\ rate_limit_store'[p][bk].capacity = C
           /\ rate_limit_store'[p][bk].window = w
           /\ rate_limit_store'[p][bk].last_refill = now
           /\ rate_limit_store'[p][bk].tokens_w =
                IF refilled >= w THEN refilled - w ELSE refilled
           /\ k \notin reconfigured'

\* C17: once PUT /api-keys/{id}/rate-limit with (requests = r, window_seconds
\* = w) has completed, the next limiter decision for the key is taken with
\* capacity r and refill rate r / w; the override is used only when both
\* fields are set, otherwise 10 requests per 60 s apply.
C17_Reconfiguration == [][InForceStep]_vars

\* After the default and then (1, 2): the first take under (1, 2) took the
\* one token of a bucket of its own.
C17_Witness ==
    /\ LimitsInForce(2) = <<1, 2>>
    /\ reconfigured = {}
    /\ <<2, 10, 60>> \in DOMAIN rate_limit_store[1]
    /\ <<2, 1, 2>> \in DOMAIN rate_limit_store[1]
    /\ rate_limit_store[1][<<2, 1, 2>>].tokens_w = 0
    /\ rate_limit_store[1][<<2, 1, 2>>].last_refill = now
    /\ now > 0

\* The first decision after a change of the limits in force finds a full
\* bucket: it is allowed and leaves capacity - 1 tokens, last_refill = now.
FreshAfterChangeStep ==
    \A k \in reconfigured :
        (takes' = takes + 1 /\ k \notin reconfigured') =>
            \E p \in Workers :
                LET C == LimitsInForce(k)[1]
                    w == LimitsInForce(k)[2]
                    bk == <<k, C, w>>
                IN /\ bk \in DOMAIN rate_limit_store'[p]
                   /\ rate_limit_store'[p][bk].tokens_w = C * w - w
                   /\ rate_limit_store'[p][bk].last_refill = now

\* C18: whenever the effective limits of a key change, the first take after
\* the change is decided on a bucket holding the full new capacity (tokens =
\* capacity, last_refill = now), also when the new limits are limits the key
\* had before and whose bucket was drained then.
C18_FreshBucket == [][FreshAfterChangeStep]_vars


(* ----------------- limiter calls side by side in a process ------------ *)
NextTakes ==
    \/ Tick(1)
    \/ update_api_key_rate_limit(1, 1, 2)
    \/ \E w \in Workers : take_begin(w, 2)
    \/ \E t \in DOMAIN tasks : take_acquire(t)
    \/ \E t \in DOMAIN tasks : take_commit(t)

SpecTakes == InitOneKey /\ [][NextTakes]_vars

(* --------------------------------- C19 -------------------------------- *)
\* The call that decides in this step decides as a take applied to the bucket
\* the decisions before it left behind.
SequentialStep ==
    \A t \in DOMAIN tasks :
        (tasks[t].pc = "locked" /\ tasks'[t].pc = "done") =>
            LET w == tasks[t].worker
                lim == tasks[t].lim
                b == BucketAt(rate_limit_store[w], tasks[t].api_key, lim, tasks[t].at)
            IN /\ tasks'[t].allowed = TakeAllowed(b, lim[1], tasks[t].at)
               /\ rate_limit_store'[w][BucketKey(tasks[t].api_key, lim)]
                      = TakeOne(b, lim[1], tasks[t].at)
               /\ \A o \in Workers \ {w} : rate_limit_store'[o] = rate_limit_store[o]

\* Calls t and u were under way at the same time.
Concurrent(t, u) ==
    /\ tasks[t].pc = "done" /\ tasks[u].pc = "done"
    /\ tasks[t].start < tasks[u].end /\ tasks[u].start < tasks[t].end

\* Calls t and u worked on the same bucket at the same instant.
SameBucket(t, u) ==
    /\ tasks[t].worker = tasks[u].worker /\ tasks[t].api_key = tasks[u].api_key
    /\ tasks[t].lim = tasks[u].lim /\ tasks[t].at = tasks[u].at

\* Of two concurrent takes on a bucket holding exactly one token, the one
\* that decides first is allowed and the other is denied.
OneTokenInv ==
    \A t, u \in DOMAIN tasks :
        (/\ t # u /\ Concurrent(t, u) /\ SameBucket(t, u)
         /\ tasks[t].end < tasks[u].end
         /\ tasks[t].found = tasks[t].lim[2]) =>
            tasks[t].allowed /\ ~tasks[u].allowed

NonNegative ==
    \A w \in Workers : \A bk \in DOMAIN rate_limit_store[w] :
        rate_limit_store[w][bk].tokens_w >= 0

\* C19: the limiter decisions on one bucket are linearizable: whatever the
\* interleaving of concurrent takes, each outcome is that of the take applied
\* in the order of the decisions; two concurrent takes on a bucket holding
\* exactly one token give one allow and one deny; tokens are never negative.
C19_Linearizable == [](OneTokenInv /\ NonNegative) /\ [][SequentialStep]_vars

C19_Witness ==
    \E t, u \in DOMAIN tasks :
        /\ t # u /\ Concurrent(t, u) /\ SameBucket(t, u)
        /\ tasks[t].start = tasks[u].start
        /\ tasks[t].found = tasks[t].lim[2]
        /\ tasks[t].allowed /\ ~tasks[u].allowed


(* ------------------------ anchoring specification ---------------------- *)
\* The unbatched rows a database holds after this many requests whose
\* batch commits all failed: one request more closes a batch and leaves a
\* full batch behind.
Backlog == 2 * MERKLE_BATCH_SIZE - 1

\* The state after POST /register-api, POST /services/1/keys and Backlog
\* requests GET /proxy/1 with the key (secret 2), all at time 0, all answered
\* 200, the commit of every batch having failed; the registry contract was
\* either never used or holds batch 1 of an earlier database.
InitAnchor ==
    /\ now = 0 /\ ticks = 0 /\ takes = 0 /\ next_secret = 3
    /\ users = Extend(Empty, 1, [api_key |-> 1, api_key_revealed |-> FALSE])
    /\ services = Extend(Empty, 1, [owner_id |-> 1, target_ok |-> TRUE,
                                     watermarking_enabled |-> FALSE])
    /\ service_configs = Empty
    /\ api_keys = Extend(Empty, 1, [NewKey(2, 1) EXCEPT !.total_cost = Backlog * DefaultPrice])
    /\ usage_logs = [i \in 1..Backlog |-> [service_id |-> 1, api_key |-> 2, timestamp |-> 0]]
    /\ bot_logs = [i \in 1..Backlog |->
                      [service_id |-> 1, api_key |-> 2, bot_score |-> 5,
                       classification |-> "human", action_taken |-> "allowed", timestamp |-> 0]]
    /\ request_hashes = [i \in 1..Backlog |-> PriorHashRow]
    /\ merkle_roots = Empty
    /\ rate_limit_store =
           [w \in Workers |->
               IF w = 1
               THEN Extend(Empty, <<2, RATE_LIMIT_CAPACITY, RATE_LIMIT_WINDOW>>,
                           [FreshBucket(RATE_LIMIT_CAPACITY, RATE_LIMIT_WINDOW, 0)
                               EXCEPT !.tokens_w = (RATE_LIMIT_CAPACITY - Backlog)
                                                       * RATE_LIMIT_WINDOW])
               ELSE Empty]
    /\ obs = NoObs /\ reqs = Empty /\ batchers = [w \in Workers |-> Idle]
    /\ verify_resp = [on |-> FALSE] /\ revoked = {}
    /\ reconfigured = {} /\ tasks = Empty /\ lock = [w \in Workers |-> None]
    /\ calc = NoCalc
    /\ me_calls = <<>>
    /\ chain \in {[NoChain EXCEPT !.up = u, !.anchored = a] :
                      u \in BOOLEAN, a \in {{}, {1}}}

\* The RPC endpoint comes into reach or goes out of reach.
chain_available(up) ==
    /\ chain.up # up
    /\ chain' = [chain EXCEPT !.up = up]
    /\ UNCHANGED <<clock, config_tables, log_tables, hash_tables, limiter, reqs,
                   batchers, verify_resp, revoked, calc, reconfigured, tasks, lock,
                 me_calls>>

\* A transaction whose receipt the gateway stopped waiting for is mined.
chain_mine(id) ==
    /\ chain.up
    /\ id \in chain.pending
    /\ chain' = [chain EXCEPT !.pending = @ \ {id}, !.anchored = @ \cup {id}]
    /\ UNCHANGED <<clock, config_tables, log_tables, hash_tables, limiter, reqs,
                   batchers, verify_resp, revoked, calc, reconfigured, tasks, lock,
                 me_calls>>

\* Requests of the key one after the other, each ending its anchoring in any
\* way the contract allows, while the chain comes and goes.
NextAnchor ==
    \/ Quiet /\ proxy_arrive(1, 2, 1, 1, 0)
    \/ \E r \in DOMAIN reqs : proxy_handler(r)
    \/ \E r \in DOMAIN reqs : proxy_response(r, 200)
    \/ \E r \in DOMAIN reqs, anchor \in AnchorOutcomes : proxy_response_env(r, 200, {}, anchor)
    \/ \E up \in BOOLEAN : chain_available(up)
    \/ \E id \in DOMAIN merkle_roots : chain_mine(id)

SpecAnchor == InitAnchor /\ [][NextAnchor]_vars

\* Where the batch id b stands in the history of submitted transactions.
SentAt(b) == {i \in 1..Len(chain.sent) : chain.sent[i] = b}

\* One step that submits: one transaction, for a batch whose row is
\* committed, that the contract did not hold when it was asked, and for
\* which nothing was submitted before.
SubmitStep ==
    chain'.sent # chain.sent =>
        \E b \in DOMAIN merkle_roots' :
            /\ chain'.sent = Append(chain.sent, b)
            /\ b \notin chain.anchored
            /\ SentAt(b) = {}

\* C21: an anchorMerkleRoot transaction for batch b is sent only once b's
\* MerkleRoot row is committed and only when the contract did not hold b
\* (isBatchAnchored(b) answered false); over a whole run, receipt timeouts
\* included, at most one anchoring transaction is submitted per batch id.
C21_AnchorOnce == [][SubmitStep]_vars

\* Two batches were submitted, the first timed out after submission and is
\* still unmined, and no batch id stands twice in the history.
C21_Witness ==
    /\ Len(chain.sent) = 2
    /\ chain.sent[1] \in chain.pending
    /\ \A b \in DOMAIN merkle_roots : Cardinality(SentAt(b)) = 1


\* Every started request is carried to its end and every reachable chain
\* mines what it was sent; arrivals and the reach of the chain are left to
\* the environment.
SpecAnchorFair ==
    /\ SpecAnchor
    /\ WF_vars(\E r \in DOMAIN reqs : proxy_handler(r))
    /\ WF_vars(\E r \in DOMAIN reqs, anchor \in AnchorOutcomes :
                   proxy_response_env(r, 200, {}, anchor))
    /\ WF_vars(\E id \in DOMAIN merkle_roots : chain_mine(id))

\* Batch 1 is closed; its row says it is anchored.
Closed1 == 1 \in DOMAIN merkle_roots
MarkedAnchored1 == Closed1 /\ merkle_roots[1].is_anchored

\* C22: a closed batch whose anchoring failed, or whose transaction was
\* submitted but not recorded, is attempted again later, so that once the
\* chain is in reach for good the batch is eventually marked anchored.
C22_AnchoringRetried == (<>[](chain.up)) => (Closed1 ~> MarkedAnchored1)


\* C23: at the moment a request suspends on the upstream HTTP dispatch its
\* database session has no open transaction: every transaction begun by
\* the queries before it has been committed or rolled back.
C23_NoTransactionAcrossUpstream ==
    \A r \in DOMAIN reqs : reqs[r].pc = "upstream" => ~reqs[r].in_transaction


(* ---------------------------- watermarking ----------------------------- *)
\* Strings are sequences of character codes: 45 is "-", 48..57 the digits,
\* 97 "a" and 124 "|".
\* str(n) of a natural number.
RECURSIVE Digits(_)
Digits(n) == IF n < 10 THEN <<48 + n>> ELSE Digits(n \div 10) \o <<48 + (n % 10)>>

\* str(n), as the f-string formats an integer.
Str(n) == IF n < 0 THEN <<45>> \o Digits(0 - n) ELSE Digits(n)

\* Whether int(s) accepts s (signs and digits as str writes them), and its value.
IsInt(s) ==
    LET d == IF s # <<>> /\ s[1] = 45 THEN Tail(s) ELSE s
    IN d # <<>> /\ \A i \in 1..Len(d) : d[i] \in 48..57

RECURSIVE NatOf(_)
NatOf(d) == IF d = <<>> THEN 0 ELSE 10 * NatOf(SubSeq(d, 1, Len(d) - 1)) + (d[Len(d)] - 48)

\* (mutant) the sign is dropped.
IntOfUnsigned(s) == NatOf(IF s[1] = 45 THEN Tail(s) ELSE s)

IntOf(s) == IF s[1] = 45 THEN 0 - NatOf(Tail(s)) ELSE NatOf(s)

\* s.split(sep)
RECURSIVE Split(_, _)
Split(s, sep) ==
    IF \E i \in 1..Len(s) : s[i] = sep
    THEN LET at == CHOOSE i \in 1..Len(s) : s[i] = sep /\ \A j \in 1..(i - 1) : s[j] # sep
         IN <<SubSeq(s, 1, at - 1)>> \o Split(SubSeq(s, at + 1, Len(s)), sep)
    ELSE <<s>>

\* base64.b64encode: three bytes become four six-bit digits, a last group of
\* one or two bytes is padded with "=" (written 64).
RECURSIVE b64encode(_)
b64encode(data) ==
    IF data = <<>> THEN <<>>
    ELSE IF Len(data) = 1
    THEN <<data[1] \div 4, (data[1] % 4) * 16, 64, 64>>
    ELSE IF Len(data) = 2
    THEN <<data[1] \div 4, (data[1] % 4) * 16 + data[2] \div 16, (data[2] % 16) * 4, 64>>
    ELSE <<data[1] \div 4, (data[1] % 4) * 16 + data[2] \div 16,
           (data[2] % 16) * 4 + data[3] \div 64, data[3] % 64>>
         \o b64encode(SubSeq(data, 4, Len(data)))

\* base64.b64decode of a padded encoding.
RECURSIVE b64decode(_)
b64decode(enc) ==
    IF Len(enc) < 4 THEN <<>>
    ELSE LET first == enc[1] * 4 + enc[2] \div 16
             second == (enc[2] % 16) * 16 + enc[3] \div 4
             third == (enc[3] % 4) * 64 + enc[4]
         IN (IF enc[3] = 64 THEN <<first>>
             ELSE IF enc[4] = 64 THEN <<first, second>>
             ELSE <<first, second, third>>)
            \o b64decode(SubSeq(enc, 5, Len(enc)))

\* generate_watermark: base64 of "service_id|api_key_id|request_id|timestamp".
generate_watermark(service_id, api_key_id, request_id, timestamp) ==
    b64encode(Str(service_id) \o <<124>> \o Str(api_key_id) \o <<124>>
              \o request_id \o <<124>> \o timestamp)

\* What decode_watermark returns for something that is no watermark.
NoWatermark == [valid |-> FALSE, service_id |-> None, api_key_id |-> None,
                request_id |-> <<>>, timestamp |-> <<>>]

\* decode_watermark: None unless the decoded text splits into four parts at
\* "|" of which the first two are integers.
decode_watermark(encoded_watermark) ==
    LET parts == Split(b64decode(encoded_watermark), 124)
    IN IF Len(parts) # 4 THEN NoWatermark
       ELSE IF ~IsInt(parts[1]) \/ ~IsInt(parts[2]) THEN NoWatermark
       ELSE [valid |-> TRUE, service_id |-> IntOf(parts[1]), api_key_id |-> IntOf(parts[2]),
             request_id |-> parts[3], timestamp |-> parts[4]]

\* The longest request_id and timestamp, the characters they are made of,
\* and the ids tried.
MaxStr == 2
StrInputs == UNION {[1..n -> {97, 124}] : n \in 0..MaxStr}
IdInputs == {0 - 3, 1, 12}

\* generate_watermark and decode_watermark are about to be applied to a tuple.
InitCodec ==
    /\ OneKeyDatabase
    /\ calc \in [fn : {"codec"}, service_id : IdInputs, api_key_id : IdInputs,
                 request_id : StrInputs, timestamp : StrInputs, done : {FALSE},
                 encoded : {<<>>}, decoded : {NoWatermark}]

apply_codec ==
    /\ calc.fn = "codec" /\ ~calc.done
    /\ LET encoded == generate_watermark(calc.service_id, calc.api_key_id,
                                         calc.request_id, calc.timestamp)
       IN calc' = [calc EXCEPT !.done = TRUE, !.encoded = encoded,
                               !.decoded = decode_watermark(encoded)]
    /\ UNCHANGED <<clock, takes, next_secret, users, config_tables, log_tables, hash_tables,
                   rate_limit_store, obs, reqs, batchers, verify_resp, revoked,
                   reconfigured, tasks, lock, chain,
                 me_calls>>

SpecCodec == InitCodec /\ [][apply_codec]_vars

\* C24, as stated: for every watermark tuple (service_id, api_key_id, request_id,
\* timestamp) with integer ids and string request_id and timestamp,
\* decode_watermark(generate_watermark(tuple)) returns exactly the tuple.
C24_CodecRoundTrip ==
    (calc.fn = "codec" /\ calc.done) =>
        calc.decoded = [valid |-> TRUE, service_id |-> calc.service_id,
                        api_key_id |-> calc.api_key_id,
                        request_id |-> calc.request_id, timestamp |-> calc.timestamp]

\* C24, amended: for every watermark tuple with integer ids and strings
\* request_id and timestamp that hold no "|",
\* decode_watermark(generate_watermark(tuple)) returns exactly the tuple.
C24_RoundTripWithoutSeparator ==
    (/\ calc.fn = "codec" /\ calc.done
     /\ \A i \in 1..Len(calc.request_id) : calc.request_id[i] # 124
     /\ \A i \in 1..Len(calc.timestamp) : calc.timestamp[i] # 124) =>
        calc.decoded = [valid |-> TRUE, service_id |-> calc.service_id,
                        api_key_id |-> calc.api_key_id,
                        request_id |-> calc.request_id, timestamp |-> calc.timestamp]

\* A tuple with a negative and a two-digit id and strings without "|" came
\* back from the round trip.
C24_Witness ==
    /\ calc.fn = "codec" /\ calc.done /\ calc.decoded.valid
    /\ calc.service_id = 0 - 3 /\ calc.api_key_id = 12
    /\ calc.request_id = <<97, 97>> /\ calc.timestamp = <<97>>
    /\ calc.decoded.request_id = <<97, 97>>


(* ----------------------- watermarking: the bodies ---------------------- *)
\* JSON values as a tagged variant: strings, objects (members in insertion
\* order, keys unique), arrays, and None.
JStr(s) == [kind |-> "string", s |-> s, members |-> <<>>, items |-> <<>>]
JObj(members) == [kind |-> "object", s |-> <<>>, members |-> members, items |-> <<>>]
JArr(items) == [kind |-> "array", s |-> <<>>, members |-> <<>>, items |-> items]
JNone == [kind |-> "none", s |-> <<>>, members |-> <<>>, items |-> <<>>]

\* Python's truth value of a JSON value: None and the empty string, object
\* and array are false.
Truthy(v) == v.kind # "none" /\ (v.s # <<>> \/ v.members # <<>> \/ v.items # <<>>)

\* The first true value of a sequence of results, or None.
FirstTruthy(results) ==
    IF \E i \in 1..Len(results) : Truthy(results[i])
    THEN results[CHOOSE i \in 1..Len(results) :
                     Truthy(results[i]) /\ \A j \in 1..(i - 1) : ~Truthy(results[j])]
    ELSE JNone

\* Where the member key stands in an object's members.
MemberAt(members, key) == {i \in 1..Len(members) : members[i][1] = key}

\* extract_watermark_from_json: the member _gaas_watermark of the value
\* itself if it has one, else the first find in its values or items.
RECURSIVE extract_watermark_from_json(_)
extract_watermark_from_json(data) ==
    IF data.kind = "object"
    THEN IF MemberAt(data.members, "_gaas_watermark") # {}
         THEN data.members[CHOOSE i \in MemberAt(data.members, "_gaas_watermark") : TRUE][2]
         ELSE FirstTruthy([i \in 1..Len(data.members) |->
                              extract_watermark_from_json(data.members[i][2])])
    ELSE IF data.kind = "array"
    THEN FirstTruthy([i \in 1..Len(data.items) |-> extract_watermark_from_json(data.items[i])])
    ELSE JNone

\* inject_watermark_json: data["_gaas_watermark"] = watermark on an object,
\* {"data": data, "_gaas_watermark": watermark} around an array.
inject_watermark_json(data, watermark) ==
    IF data.kind = "object"
    THEN IF MemberAt(data.members, "_gaas_watermark") # {}
         THEN JObj([i \in 1..Len(data.members) |->
                       IF data.members[i][1] = "_gaas_watermark"
                       THEN <<"_gaas_watermark", JStr(watermark)>>
                       ELSE data.members[i]])
         ELSE JObj(Append(data.members, <<"_gaas_watermark", JStr(watermark)>>))
    ELSE IF data.kind = "array"
    THEN JObj(<< <<"data", data>>, <<"_gaas_watermark", JStr(watermark)>> >>)
    ELSE data

\* Text as a sequence of pieces: a piece is ordinary text, or a marker
\* "<!-- GAAS_WM:wm -->" (html) or "[GAAS_WM:wm]" (bracket).
Piece == [marker |-> "none", wm |-> <<>>]
Marker(kind, wm) == [marker |-> kind, wm |-> wm]

\* The content types told apart: 'application/json' in content_type, and
\* 'text/' in content_type or 'html' in content_type.
HasJson(content_type) == content_type = "application/json"
HasText(content_type) == content_type \in {"text/html", "text/plain", "application/xhtml+xml"}
HasHtml(content_type) == content_type \in {"text/html", "application/xhtml+xml"}

\* inject_watermark_text: a newline and the marker of the content type
\* ("html" in content_type.lower()) at the end.
inject_watermark_text(text, watermark, content_type) ==
    text \o <<Piece, Marker(IF HasHtml(content_type) THEN "html" ELSE "bracket",
                            watermark)>>

\* The first marker of a kind in a text (re.search), or None.
FirstMarker(text, kind) ==
    LET at == {i \in 1..Len(text) : text[i].marker = kind}
    IN IF at = {} THEN JNone
       ELSE JStr(text[CHOOSE i \in at : \A j \in at : i <= j].wm)

\* extract_watermark_from_text: the HTML comment pattern, then the bracket
\* pattern.
extract_watermark_from_text(text) ==
    IF FirstMarker(text, "html") # JNone THEN FirstMarker(text, "html")
    ELSE FirstMarker(text, "bracket")

\* A response body: JSON text (json.loads gives value) or other text.
JsonBody(value) == [is_json |-> TRUE, value |-> value, text |-> <<>>]
TextBody(text) == [is_json |-> FALSE, value |-> JNone, text |-> text]

\* proxy_request, the injection by content type: application/json bodies
\* that parse are injected as JSON and serialised again, bodies that do not
\* parse and text/ bodies are injected as text.
InjectWatermark(body, content_type, watermark) ==
    IF content_type = "application/json" /\ body.is_json
    THEN JsonBody(inject_watermark_json(body.value, watermark))
    ELSE TextBody(inject_watermark_text(body.text, watermark, content_type))

\* verify_watermark, the extraction: JSON search if the data parses as
\* JSON, else the text patterns; nothing found if the find is false.
ExtractWatermark(data) ==
    LET watermark == IF data.is_json THEN extract_watermark_from_json(data.value)
                     ELSE extract_watermark_from_text(data.text)
    IN IF Truthy(watermark) THEN [watermark_found |-> TRUE, raw_watermark |-> watermark]
       ELSE [watermark_found |-> FALSE, raw_watermark |-> JNone]

\* The most members, items or pieces of a body.
MaxBody == 2

\* The watermarks tried, and the bodies: leaves are a string and a string
\* that is a watermark; objects under the keys "a" and "_gaas_watermark",
\* nested once; arrays; texts of ordinary pieces and markers of both kinds.
WatermarkInputs == {generate_watermark(1, 1, <<97>>, <<97>>),
                    generate_watermark(12, 1, <<97>>, <<97>>)}
PriorWatermark == generate_watermark(1, 1, <<97>>, <<97>>)
JsonLeaves == {JStr(<<97>>), JStr(PriorWatermark)}
JsonKeys == {"a", "_gaas_watermark"}
JsonInner == JsonLeaves \cup {JObj(<<>>)} \cup {JObj(<< <<k, l>> >>) : k \in JsonKeys, l \in JsonLeaves}
JsonObjects ==
    {JObj(m) : m \in {s \in UNION {[1..n -> JsonKeys \X JsonInner] : n \in 0..MaxBody} :
                         \A i, j \in 1..Len(s) : i # j => s[i][1] # s[j][1]}}
JsonArrays == {JArr(s) : s \in UNION {[1..n -> JsonInner] : n \in 0..MaxBody}}
TextInputs ==
    UNION {[1..n -> {Piece, Marker("html", PriorWatermark), Marker("bracket", PriorWatermark)}] :
               n \in 0..MaxBody}
BodyInputs ==
    {[content_type |-> "application/json", body |-> JsonBody(v)] : v \in JsonObjects \cup JsonArrays}
    \cup {[content_type |-> c, body |-> TextBody(t)] : c \in {"text/html", "text/plain"},
                                                      t \in TextInputs}

\* A watermark is about to be injected into a body and extracted again.
InitInject ==
    /\ OneKeyDatabase
    /\ \E b \in BodyInputs, w \in WatermarkInputs :
          calc = [fn |-> "inject", content_type |-> b.content_type, body |-> b.body,
                  watermark |-> w, done |-> FALSE, injected |-> TextBody(<<>>),
                  extracted |-> [watermark_found |-> FALSE, raw_watermark |-> JNone]]

apply_inject ==
    /\ calc.fn = "inject" /\ ~calc.done
    /\ LET injected == InjectWatermark(calc.body, calc.content_type, calc.watermark)
       IN calc' = [calc EXCEPT !.done = TRUE, !.injected = injected,
                               !.extracted = ExtractWatermark(injected)]
    /\ UNCHANGED <<clock, takes, next_secret, users, config_tables, log_tables, hash_tables,
                   rate_limit_store, obs, reqs, batchers, verify_resp, revoked,
                   reconfigured, tasks, lock, chain,
                 me_calls>>

SpecInject == InitInject /\ [][apply_inject]_vars

\* C25: for every watermark W and every body that is a JSON object, a JSON
\* array, an HTML document or plain text, extracting from the injected body
\* (JSON search first, then the HTML comment pattern, then the bracket
\* pattern) returns exactly W, also when the body already held a
\* _gaas_watermark member or a GAAS_WM marker.
C25_InjectionRoundTrip ==
    (calc.fn = "inject" /\ calc.done) =>
        calc.extracted = [watermark_found |-> TRUE, raw_watermark |-> JStr(calc.watermark)]

\* The same for JSON bodies alone.
InjectionRoundTripJson ==
    (calc.fn = "inject" /\ calc.done /\ calc.body.is_json) =>
        calc.extracted = [watermark_found |-> TRUE, raw_watermark |-> JStr(calc.watermark)]

\* The same for texts that hold no marker.
InjectionRoundTripCleanText ==
    (/\ calc.fn = "inject" /\ calc.done /\ ~calc.body.is_json
     /\ \A i \in 1..Len(calc.body.text) : calc.body.text[i].marker = "none") =>
        calc.extracted = [watermark_found |-> TRUE, raw_watermark |-> JStr(calc.watermark)]


(* ------------------------- Merkle construction ------------------------- *)
\* The longest list of hashes tried, and the hashes it is made of.
MaxLeaves == 5
LeafInputs == {Sha256(<<1>>), Sha256(<<2>>)}

\* build_merkle_tree is about to be applied to a list of hashes.
InitMerkle ==
    /\ OneKeyDatabase
    /\ calc \in [fn : {"merkle"}, hashes : UNION {[1..n -> LeafInputs] : n \in 0..MaxLeaves},
                 done : {FALSE}, root : {<<>>}, batches : {{}}]

\* build_merkle_tree on the list, and compute_and_store_merkle_root on a
\* table that holds exactly the list's rows.
apply_merkle ==
    /\ calc.fn = "merkle" /\ ~calc.done
    /\ LET rows == [i \in 1..Len(calc.hashes) |-> [PriorHashRow EXCEPT !.hash = calc.hashes[i]]]
           sel == [i \in 1..Min2(Len(calc.hashes), MERKLE_BATCH_SIZE) |-> i]
       IN calc' = [calc EXCEPT !.done = TRUE,
                               !.root = build_merkle_tree(calc.hashes),
                               !.batches = DOMAIN StoreRoot(rows, Empty, sel).merkle_roots]
    /\ UNCHANGED <<clock, takes, next_secret, users, config_tables, log_tables, hash_tables,
                   rate_limit_store, obs, reqs, batchers, verify_resp, revoked,
                   reconfigured, tasks, lock, chain,
                 me_calls>>

SpecMerkle == InitMerkle /\ [][apply_merkle]_vars

\* H(L_hex concatenated with R_hex).
HashPair(l, r) == Sha256(l \o r)

\* A level with its adjacent elements paired, the last element of a level
\* of odd length paired with itself.
PairedUp(level) ==
    [i \in 1..((Len(level) + 1) \div 2) |->
        HashPair(level[2 * i - 1], level[IF 2 * i <= Len(level) THEN 2 * i ELSE 2 * i - 1])]

RECURSIVE PairedRoot(_)
PairedRoot(level) == IF Len(level) = 1 THEN level[1] ELSE PairedRoot(PairedUp(level))

\* C26: build_merkle_tree returns the hash itself for one element and
\* otherwise the root got by pairing adjacent elements level by level, the
\* last element of a level of odd length duplicated: [a,b,c] gives
\* H(H(a,b), H(c,c)) and [h1,h2,h3,h4] gives H(H(h1,h2), H(h3,h4)); the empty
\* list gives the empty root and produces no batch.
C26_MerkleConstruction ==
    (calc.fn = "merkle" /\ calc.done) =>
        LET h == calc.hashes
        IN /\ Len(h) = 0 => calc.root = <<>> /\ calc.batches = {}
           /\ Len(h) = 1 => calc.root = h[1]
           /\ Len(h) > 1 => calc.root = PairedRoot(h)
           /\ Len(h) = 2 => calc.root = HashPair(h[1], h[2])
           /\ Len(h) = 3 => calc.root = HashPair(HashPair(h[1], h[2]), HashPair(h[3], h[3]))
           /\ Len(h) = 4 => calc.root = HashPair(HashPair(h[1], h[2]), HashPair(h[3], h[4]))

\* The root of three hashes, the third different from the first.
C26_Witness ==
    /\ calc.fn = "merkle" /\ calc.done /\ Len(calc.hashes) = 3
    /\ calc.hashes[1] # calc.hashes[3]
    /\ calc.root = HashPair(HashPair(calc.hashes[1], calc.hashes[2]),
                            HashPair(calc.hashes[3], calc.hashes[3]))


(* ------------------------- transport errors ---------------------------- *)
\* Requests with the service key (secret 2) or no key, answered by the
\* upstream or failed in transport.
NextTransport ==
    \/ Tick(1)
    \/ \E k \in {NoKey, 2} : proxy_arrive(1, k, 1, 1, 0)
    \/ \E r \in DOMAIN reqs : proxy_handler(r)
    \/ \E r \in DOMAIN reqs, st \in StatusInputs : proxy_response(r, st)
    \/ \E r \in DOMAIN reqs, e \in ErrorInputs : proxy_transport_error(r, e)

SpecTransport == InitOneKey /\ [][NextTransport]_vars

\* The requests whose upstream dispatch fails in this step.
FailingDispatch ==
    {r \in DOMAIN reqs : reqs[r].pc = "upstream" /\ reqs'[r].pc = "done"
                         /\ reqs'[r].outcome \in ErrorInputs}

TransportErrorStep ==
    \A r \in FailingDispatch :
        /\ reqs'[r].outcome = "timeout" => reqs'[r].status = 504
        /\ reqs'[r].outcome = "connect" => reqs'[r].status = 502
        /\ reqs'[r].outcome = "request" => reqs'[r].status = 502
        /\ ~Is2xx(reqs'[r].status)
        /\ usage_logs' = usage_logs
        /\ \A k \in DOMAIN api_keys : api_keys'[k].total_cost = api_keys[k].total_cost

\* C27: an upstream dispatch that times out is answered 504, a connection
\* failure 502 and any other transport error 502; none of them is answered
\* with a 2xx status or writes a UsageLog row or a billing increment.
C27_TransportErrors == [][TransportErrorStep]_vars

\* One request timed out and one could not connect: 504 and 502, no
\* UsageLog row, nothing billed.
C27_Witness ==
    /\ \E r \in DOMAIN reqs : reqs[r].outcome = "timeout" /\ reqs[r].status = 504
    /\ \E r \in DOMAIN reqs : reqs[r].outcome = "connect" /\ reqs[r].status = 502
    /\ usage_logs = Empty
    /\ \A k \in DOMAIN api_keys : api_keys[k].total_cost = 0


(* ----------------------------- bot score ------------------------------- *)
\* The signals tried: the values analyze_user_agent returns, the UsageLog
\* rows of the key and of another key written at time 0, the expected
\* headers present, whether the request has fewer than five headers, and
\* the instants of the request (the rows are 0, 60 and 61 s old).
UAScoreInputs == {1, 5, 7, 8, 9}
RecentInputs == {0, 5, 6, 10, 11, 20, 21}
OtherKeyInputs == {0, 6}
PresentInputs == 0..5
NowInputs == {0, 60, 61}

\* The transparency log after n requests of key 1 to service 1, one after
\* the other, all answered 200 at time 0: PriorLog(n), written out.
LongLog(n) ==
    LET batches == n \div MERKLE_BATCH_SIZE
        BatchOf(i) == (i - 1) \div MERKLE_BATCH_SIZE + 1
    IN [request_hashes |->
            [i \in 1..n |-> [PriorHashRow EXCEPT !.merkle_batch_id =
                                 IF BatchOf(i) <= batches THEN BatchOf(i) ELSE None]],
        merkle_roots |->
            [b \in 1..batches |->
                [merkle_root |-> build_merkle_tree([i \in 1..MERKLE_BATCH_SIZE |-> PriorHashRow.hash]),
                 start_time |-> 0, end_time |-> 0, request_count |-> MERKLE_BATCH_SIZE,
                 is_anchored |-> FALSE, tx_hash |-> None, block_number |-> None,
                 anchored_at |-> NoTime,
                 over |-> ((b - 1) * MERKLE_BATCH_SIZE + 1)..(b * MERKLE_BATCH_SIZE),
                 receipt |-> "none"]]]

\* The state after POST /register-api, POST /services/1/keys, a rate limit
\* of 30 per 60 s for the key, n requests GET /proxy/1 with the key (secret
\* 2) and m with the owner's key (secret 1), all at time 0 and answered 200,
\* and a restart of the gateway process.
ScoreDatabase(n, m, t) ==
    /\ now = t /\ ticks = 0 /\ takes = 0 /\ next_secret = 3
    /\ users = Extend(Empty, 1, [api_key |-> 1, api_key_revealed |-> FALSE])
    /\ services = Extend(Empty, 1, [owner_id |-> 1, target_ok |-> TRUE,
                                     watermarking_enabled |-> FALSE])
    /\ service_configs = Empty
    /\ api_keys = Extend(Empty, 1, [NewKey(2, 1) EXCEPT !.rate_limit_requests = 30,
                                                        !.rate_limit_window_seconds = 60,
                                                        !.total_cost = n * DefaultPrice])
    /\ usage_logs = [i \in 1..(n + m) |->
                        [service_id |-> 1, api_key |-> IF i <= n THEN 2 ELSE 1, timestamp |-> 0]]
    /\ bot_logs = [i \in 1..(n + m) |->
                      [service_id |-> 1, api_key |-> IF i <= n THEN 2 ELSE 1, bot_score |-> 5,
                       classification |-> "human", action_taken |-> "allowed", timestamp |-> 0]]
    /\ request_hashes = LongLog(n).request_hashes
    /\ merkle_roots = LongLog(n).merkle_roots
    /\ rate_limit_store = [w \in Workers |-> Empty]
    /\ obs = NoObs /\ reqs = Empty /\ batchers = [w \in Workers |-> Idle]
    /\ verify_resp = [on |-> FALSE] /\ revoked = {}
    /\ reconfigured = {} /\ tasks = Empty /\ lock = [w \in Workers |-> None]
    /\ chain = NoChain /\ me_calls = <<>>

\* calculate_bot_score is about to be applied to a request of the key.
InitScore ==
    \E n \in RecentInputs, m \in OtherKeyInputs, t \in NowInputs :
        /\ ScoreDatabase(n, m, t)
        /\ calc \in [fn : {"score"}, ua_score : UAScoreInputs, present_headers : PresentInputs,
                     few_headers : BOOLEAN, rows : {n}, done : {FALSE},
                     rate_score : {0}, header_score : {0}, bot_score : {0},
                     classification : {"none"}, result : {<<FALSE, "none">>}]

apply_score ==
    /\ calc.fn = "score" /\ ~calc.done
    /\ LET header_score == analyze_header_entropy(calc.present_headers, calc.few_headers)
           bot_score == calculate_bot_score(calc.ua_score, header_score, 2)
       IN calc' = [calc EXCEPT !.done = TRUE,
                               !.rate_score = analyze_request_rate(2),
                               !.header_score = header_score,
                               !.bot_score = bot_score,
                               !.classification = classify_traffic(bot_score),
                               !.result = should_block(bot_score, TRUE, DefaultThreshold)]
    /\ UNCHANGED <<clock, takes, next_secret, users, config_tables, log_tables, hash_tables,
                   rate_limit_store, obs, reqs, batchers, verify_resp, revoked,
                   reconfigured, tasks, lock, chain,
                 me_calls>>

SpecScore == InitScore /\ [][apply_score]_vars

\* The UsageLog rows of the key in the last 60 s: the rows were written at
\* time 0.
RowsInWindow == IF now <= 60 THEN calc.rows ELSE 0

\* C28: the score is clamp(0.5 ua + 0.3 rate + 0.2 header, 0, 1), where rate
\* is 0.0 / 0.3 / 0.6 / 0.9 for n <= 5 / <= 10 / <= 20 / > 20 UsageLog rows of
\* the key in the last 60 s and header is the share of the five expected
\* headers that are absent, plus 0.3 (at most 1.0) with fewer than five
\* headers; the classification is human below 0.3, suspicious from 0.3 and
\* below 0.7, bot from 0.7.  For ua 0.9, rate 0.0, header 1.0 the score is
\* 0.65, suspicious, and with blocking enabled at threshold 0.7 the action is
\* "flagged" and the request proceeds.
C28_ScoreAndClass ==
    (calc.fn = "score" /\ calc.done) =>
        LET n == RowsInWindow
            absent == 5 - calc.present_headers
            raw == 5 * calc.ua_score + 3 * calc.rate_score + 2 * calc.header_score
        IN /\ n <= 5 => calc.rate_score = 0
           /\ (5 < n /\ n <= 10) => calc.rate_score = 3
           /\ (10 < n /\ n <= 20) => calc.rate_score = 6
           /\ n > 20 => calc.rate_score = 9
           /\ ~calc.few_headers => calc.header_score = 2 * absent
           /\ calc.few_headers => calc.header_score = Min2(10, 2 * absent + 3)
           /\ calc.bot_score = IF raw > 100 THEN 100 ELSE IF raw < 0 THEN 0 ELSE raw
           /\ calc.bot_score < 30 <=> calc.classification = "human"
           /\ (30 <= calc.bot_score /\ calc.bot_score < 70) <=> calc.classification = "suspicious"
           /\ calc.bot_score >= 70 <=> calc.classification = "bot"
           /\ (calc.ua_score = 9 /\ calc.rate_score = 0 /\ calc.header_score = 10) =>
                 /\ calc.bot_score = 65
                 /\ calc.classification = "suspicious"
                 /\ calc.result = <<FALSE, "flagged">>

\* The example of the claim, with rows of the key that are too old to count.
C28_Witness ==
    /\ calc.fn = "score" /\ calc.done
    /\ calc.ua_score = 9 /\ calc.rows = 21 /\ now = 61 /\ calc.rate_score = 0
    /\ calc.present_headers = 1 /\ calc.few_headers /\ calc.header_score = 10
    /\ calc.bot_score = 65 /\ calc.classification = "suspicious"
    /\ calc.result = <<FALSE, "flagged">>

\* LongLog is PriorLog where both are computed.
LongLogIsPriorLog == \A n \in 0..PriorRequests : LongLog(n) = PriorLog(n)


(* -------------------------------- C29 ---------------------------------- *)
\* The services a step deletes, and the secrets of the keys bound to them.
Deleted == DOMAIN services \ DOMAIN services'
BoundTo(service_id) ==
    {api_keys[i].key : i \in {j \in DOMAIN api_keys : api_keys[j].service_id = service_id}}

DeleteStep ==
    \A s \in Deleted :
        /\ \A i \in DOMAIN api_keys' : api_keys'[i].service_id # s
        /\ \A i \in DOMAIN usage_logs' : usage_logs'[i].service_id # s
        /\ \A i \in DOMAIN bot_logs' : bot_logs'[i].service_id # s
        /\ \A i \in DOMAIN request_hashes' : request_hashes'[i].service_id # s
        /\ \A k \in BoundTo(s) : ~(get_current_user(k))'

\* C29: once DELETE /services/{id} has completed, no ApiKey, UsageLog,
\* BotDetectionLog or RequestHash row references the deleted service, and no
\* key that was bound to it authenticates any more.
C29_DeletionCascades == [][DeleteStep]_vars

\* The same without the RequestHash rows.
DeleteStepOtherTables ==
    \A s \in Deleted :
        /\ \A i \in DOMAIN api_keys' : api_keys'[i].service_id # s
        /\ \A i \in DOMAIN usage_logs' : usage_logs'[i].service_id # s
        /\ \A i \in DOMAIN bot_logs' : bot_logs'[i].service_id # s
        /\ \A k \in BoundTo(s) : ~(get_current_user(k))'

DeletionCascadesOtherTables == [][DeleteStepOtherTables]_vars


(* -------------------------------- C30 ---------------------------------- *)
\* Request b of a caller is completed in this step while request a of the
\* same caller is not: b is the first of the two to complete.
CompletesBefore(b, a) ==
    /\ a # b
    /\ reqs[a].api_key = reqs[b].api_key
    /\ reqs[b].pc # "done" /\ reqs'[b].pc = "done"
    /\ reqs'[a].pc # "done"

\* The RequestHash rows of request r after the step.
RowsOfRequestAfter(r) == {i \in DOMAIN request_hashes' : request_hashes'[i].req = r}

\* No row of the request that completes second is committed, with a smaller
\* id, before a row of the request that completes first.
CompletionOrderStep ==
    \A a, b \in DOMAIN reqs :
        CompletesBefore(b, a) =>
            \A i \in RowsOfRequestAfter(a), j \in RowsOfRequestAfter(b) : j < i

\* C30: for two requests of the same caller, if the first request's response
\* is completed before the second's, the first request's RequestHash and
\* UsageLog rows are committed, and receive smaller ids, before those of the
\* second, in every interleaving of concurrent requests.
C30_CommitOrder == [][CompletionOrderStep]_vars


(* ------------------------- GET /me/api-key ---------------------------- *)
\* Most calls of GET /me/api-key a run makes.
MaxCalls == 3

\* The user a call is about: the one whose key is in X-API-Key, or the first
\* user when the header is absent; None when there is none.
MeUser(x_api_key) ==
    LET found == IF x_api_key # NoKey
                 THEN {u \in DOMAIN users : users[u].api_key = x_api_key}
                 ELSE DOMAIN users
    IN IF found = {} THEN None ELSE CHOOSE u \in found : \A v \in found : u <= v

\* Events (arrivals and answers) of GET /me/api-key so far.
MeEvents == Len(me_calls) + Cardinality({i \in DOMAIN me_calls : me_calls[i].status # 0})

\* The test on the flag read by the call.
RevealedNever(row) == FALSE
AlreadyRevealed(row) == row.api_key_revealed = TRUE

\* The call up to its read of the user row: it answers 401 or 404 without a
\* user, the message when the key was revealed, and otherwise goes on to
\* mark the key (status 0: not answered yet). A process runs the handler
\* without a pause, so that as many calls as processes are under way.
get_my_api_key_read(x_api_key) ==
    /\ Len(me_calls) < MaxCalls
    /\ Cardinality({i \in DOMAIN me_calls : me_calls[i].status = 0}) < MaxWorkers
    /\ LET user == MeUser(x_api_key)
           status == IF user = None THEN (IF x_api_key # NoKey THEN 401 ELSE 404)
                     ELSE IF AlreadyRevealed(users[user]) THEN 200
                     ELSE 0
       IN me_calls' = Append(me_calls,
              [x_api_key |-> x_api_key, user |-> user,
               status |-> status, api_key |-> NoKey,
               began |-> MeEvents, ended |-> IF status = 0 THEN 0 ELSE MeEvents + 1])
    /\ UNCHANGED <<clock, config_tables, log_tables, hash_tables, limiter, reqs,
                   batchers, verify_resp, revoked, calc, reconfigured, tasks, lock, chain>>

\* The rest of the call: the flag is set and committed, the key is returned.
get_my_api_key_commit(i) ==
    /\ i \in DOMAIN me_calls /\ me_calls[i].status = 0
    /\ LET user == me_calls[i].user
       IN /\ users' = [users EXCEPT ![user].api_key_revealed = TRUE]
          /\ me_calls' = [me_calls EXCEPT ![i].status = 200,
                                          ![i].api_key = users[user].api_key,
                                          ![i].ended = MeEvents]
    /\ UNCHANGED <<clock, next_secret, services, service_configs, api_keys,
                   log_tables, hash_tables, limiter, reqs,
                   batchers, verify_resp, revoked, calc, reconfigured, tasks, lock, chain>>

\* Calls without the header, with the key of the user (secret 1) and with
\* a secret that is no user's, among registrations, key creations and the
\* deletion of service 1.
NextReveal ==
    \/ register_api
    \/ create_service_api_key(1)
    \/ delete_service(1)
    \/ \E k \in {NoKey, 1, 2} : get_my_api_key_read(k)
    \/ \E i \in 1..MaxCalls : get_my_api_key_commit(i)

SpecReveal == Init /\ [][NextReveal]_vars

\* Call i was answered with the key of user u.
RevealedTo(i, u) ==
    /\ me_calls[i].user = u /\ me_calls[i].status = 200
    /\ me_calls[i].api_key # NoKey
\* Call j arrived after call i was answered.
LaterCall(i, j) == me_calls[i].status # 0 /\ me_calls[i].ended < me_calls[j].began

\* C31: GET /me/api-key reveals the key of a user once. A call answered 200
\* returns the key exactly when no call answered with that user's key was
\* answered before it arrived; the key it returns is the user's and the user
\* is then marked revealed; every call that arrives after such an answer
\* returns the message and no key, whatever operations come in between.
C31_RevealedOnce ==
    \A j \in DOMAIN me_calls :
        me_calls[j].status = 200 =>
            LET u == me_calls[j].user
            IN /\ me_calls[j].api_key # NoKey
                    <=> ~ \E i \in DOMAIN me_calls : RevealedTo(i, u) /\ LaterCall(i, j)
               /\ me_calls[j].api_key # NoKey
                    => /\ me_calls[j].api_key = users[u].api_key
                       /\ users[u].api_key_revealed

\* The key was revealed, a later call returned the message, and service keys
\* were created in between.
C31_Witness ==
    \E i, j \in DOMAIN me_calls :
        /\ RevealedTo(i, me_calls[i].user) /\ LaterCall(i, j)
        /\ me_calls[j].user = me_calls[i].user
        /\ me_calls[j].status = 200 /\ me_calls[j].api_key = NoKey
        /\ api_keys # Empty


(* ------------------ billing, processes side by side ------------------- *)
\* proxy_request, the billing update of a 2xx response up to the assignment:
\* the ApiKey object was expired by the commit or the rollback of the hash
\* block, so that reading total_cost and price_per_request reloads the row;
\* the new total is computed in the process.
usage_load(r) ==
    /\ r \in DOMAIN reqs
    /\ reqs[r].pc = "usage"
    /\ Is2xx(reqs[r].status)
    /\ reqs[r].key_resolved /\ reqs[r].key_id \in DOMAIN api_keys
    /\ reqs' = [reqs EXCEPT ![r].pc = "billing",
                            ![r].loaded = <<api_keys[reqs[r].key_id].total_cost
                                            + api_keys[reqs[r].key_id].price_per_request>>]
    /\ UNCHANGED <<clock, config_tables, log_tables, hash_tables, limiter, batchers,
                   verify_resp, revoked, calc, reconfigured, tasks, lock, chain, me_calls>>

\* The commit that follows: the UsageLog row is inserted and the row of the
\* key is updated to the total computed in the process; then the return.
usage_commit(r) ==
    /\ r \in DOMAIN reqs
    /\ reqs[r].pc = "billing"
    /\ IF reqs[r].key_id \in DOMAIN api_keys
       THEN /\ usage_logs' = Extend(usage_logs, NextId(usage_logs),
                                    [service_id |-> reqs[r].service_id,
                                     api_key |-> reqs[r].api_key, timestamp |-> now])
            /\ api_keys' = [api_keys EXCEPT ![reqs[r].key_id].total_cost = reqs[r].loaded[1]]
       ELSE UNCHANGED <<usage_logs, api_keys>>
    /\ reqs' = [reqs EXCEPT ![r].pc = "done", ![r].body = ResponseBody(reqs[r], {}),
                            ![r].in_transaction = SessionAfter(@, <<"commit", "close">>)]
    /\ batchers' = [batchers EXCEPT ![reqs[r].worker] = Idle]
    /\ UNCHANGED <<clock, next_secret, users, services, service_configs, bot_logs,
                   hash_tables, limiter, verify_resp, revoked, calc, reconfigured,
                   tasks, lock, chain, me_calls>>

\* The response whose billing update does not apply (no 2xx status, or no
\* active key row): response_usage as it is.
usage_unbilled(r) ==
    /\ r \in DOMAIN reqs
    /\ ~ (Is2xx(reqs[r].status) /\ reqs[r].key_resolved /\ reqs[r].key_id \in DOMAIN api_keys)
    /\ response_usage(r)

\* Several gateway processes on one database: requests with the service key
\* (secret 2), their responses processed side by side.
NextBilling ==
    \/ \E w \in Workers : proxy_arrive(w, 2, 1, 1, 0)
    \/ \E r \in 1..MaxReqs : proxy_handler(r)
    \/ \E r \in 1..MaxReqs, st \in StatusInputs : response_commit_hash(r, st)
    \/ \E r \in 1..MaxReqs : batch_select(r)
    \/ \E r \in 1..MaxReqs : batch_write(r)
    \/ \E r \in 1..MaxReqs : usage_load(r)
    \/ \E r \in 1..MaxReqs : usage_commit(r)
    \/ \E r \in 1..MaxReqs : usage_unbilled(r)

SpecBilling == InitOneKey /\ [][NextBilling]_vars

\* The requests through key row i that completed with a 2xx status.
Billed(i) ==
    {r \in DOMAIN reqs : /\ reqs[r].pc = "done" /\ Is2xx(reqs[r].status)
                         /\ reqs[r].key_resolved /\ reqs[r].key_id = i}

\* C32: billing loses no update under concurrency. While the price of a key
\* is p, the k requests through it that completed with a 2xx status have
\* raised its total_cost by exactly k * p and appended exactly k UsageLog rows.
C32_NoLostUpdate ==
    \A i \in DOMAIN api_keys :
        /\ api_keys[i].total_cost = Cardinality(Billed(i)) * api_keys[i].price_per_request
        /\ Cardinality({l \in DOMAIN usage_logs : usage_logs[l].api_key = api_keys[i].key})
               = Cardinality(Billed(i))


(* --------------------------- batch selection -------------------------- *)
\* Row a of table hashes comes before row b in the order timestamp
\* ascending, then id ascending.
Precedes(hashes, a, b) ==
    \/ hashes[a].timestamp < hashes[b].timestamp
    \/ hashes[a].timestamp = hashes[b].timestamp /\ a < b

\* The rows ids in that order.
InOrder(hashes, ids) ==
    CHOOSE s \in [1..Cardinality(ids) -> ids] :
        \A i, j \in 1..Cardinality(ids) : i < j => Precedes(hashes, s[i], s[j])

\* A step that stores batch id: the rows that were unbatched when it ran
\* its query are those it left unbatched and those it assigned.
BatchSelectionStep ==
    \A id \in DOMAIN merkle_roots' \ DOMAIN merkle_roots :
        LET unbatched == {i \in DOMAIN request_hashes' :
                             /\ request_hashes'[i].merkle_batch_id \in {None, id}
                             /\ i \in DOMAIN request_hashes
                                    => request_hashes[i].merkle_batch_id = None}
            oldest == SubSeq(InOrder(request_hashes', unbatched), 1, MERKLE_BATCH_SIZE)
            batch == merkle_roots'[id]
        IN /\ Cardinality(unbatched) >= MERKLE_BATCH_SIZE
           /\ batch.over = Range(oldest)
           /\ batch.merkle_root =
                  build_merkle_tree([i \in 1..Len(oldest) |-> request_hashes'[oldest[i]].hash])
           /\ batch.start_time = request_hashes'[oldest[1]].timestamp
           /\ batch.end_time = request_hashes'[oldest[Len(oldest)]].timestamp
           /\ \A b \in DOMAIN merkle_roots :
                 \A x \in merkle_roots[b].over, y \in batch.over :
                     Precedes(request_hashes', x, y)

\* C33: batch selection. A batch is created only when at least
\* MERKLE_BATCH_SIZE unbatched rows exist; it is computed over exactly the
\* MERKLE_BATCH_SIZE oldest of them in the order timestamp ascending, then id
\* ascending; its start_time and end_time are the first and last of their
\* timestamps; every row of an earlier batch precedes every row of it.
C33_BatchSelection == [][BatchSelectionStep]_vars


(* ------------------------- injection dispatch ------------------------- *)
\* (mutant) a body of any other content type is injected as text.
ResponseContentAnyType(body, content_type, watermarking_enabled, key_resolved, watermark) ==
    IF watermarking_enabled /\ key_resolved
    THEN IF HasJson(content_type) /\ body.is_json
         THEN JsonBody(inject_watermark_json(body.value, watermark))
         ELSE TextBody(inject_watermark_text(body.text, watermark, content_type))
    ELSE body

\* proxy_request, the response content: the upstream body, watermarked by
\* content type if the service has watermarking enabled and the key
\* resolved.
ResponseContent(body, content_type, watermarking_enabled, key_resolved, watermark) ==
    IF watermarking_enabled /\ key_resolved
    THEN IF HasJson(content_type)
         THEN IF body.is_json
              THEN JsonBody(inject_watermark_json(body.value, watermark))
              ELSE TextBody(inject_watermark_text(body.text, watermark, content_type))
         ELSE IF HasText(content_type)
         THEN TextBody(inject_watermark_text(body.text, watermark, content_type))
         ELSE body
    ELSE body

\* Upstream responses: the bodies above under their content types, texts
\* under an XHTML type and under a type that is neither JSON nor text, and a
\* text that does not parse under the JSON type.
ResponseInputs ==
    BodyInputs
    \cup {[content_type |-> c, body |-> TextBody(t)] :
             c \in {"application/xhtml+xml", "image/png", "application/json"},
             t \in TextInputs}

InitDispatch ==
    /\ OneKeyDatabase
    /\ \E b \in ResponseInputs, enabled \in BOOLEAN, resolved \in BOOLEAN :
          calc = [fn |-> "dispatch", content_type |-> b.content_type, body |-> b.body,
                  watermarking_enabled |-> enabled, key_resolved |-> resolved,
                  watermark |-> generate_watermark(12, 1, <<97>>, <<97>>),
                  done |-> FALSE, content |-> TextBody(<<>>)]

apply_dispatch ==
    /\ calc.fn = "dispatch" /\ ~calc.done
    /\ calc' = [calc EXCEPT !.done = TRUE,
                            !.content = ResponseContent(calc.body, calc.content_type,
                                                        calc.watermarking_enabled,
                                                        calc.key_resolved, calc.watermark)]
    /\ UNCHANGED <<clock, config_tables, log_tables, hash_tables, limiter, reqs,
                   batchers, verify_resp, revoked, reconfigured, tasks, lock, chain,
                   me_calls>>

SpecDispatch == InitDispatch /\ [][apply_dispatch]_vars

\* The members of a JSON object other than _gaas_watermark, in order.
OtherMembers(value) ==
    SelectSeq(value.members, LAMBDA m : m[1] # "_gaas_watermark")

\* C34: injection dispatch. With watermarking enabled and a resolved key a
\* JSON object body gains the member _gaas_watermark and keeps all other
\* members, a JSON array body A becomes {"data": A, "_gaas_watermark": W},
\* an HTML or text body gets the marker of its type appended after a newline,
\* and a body of any other content type is returned as it came; with
\* watermarking disabled every body is returned as it came.
C34_InjectionDispatch ==
    (calc.fn = "dispatch" /\ calc.done) =>
        LET body == calc.body
            out == calc.content
            W == calc.watermark
        IN IF ~calc.watermarking_enabled THEN out = body
           ELSE IF ~calc.key_resolved THEN TRUE
           ELSE IF HasJson(calc.content_type) /\ body.is_json /\ body.value.kind = "object"
           THEN /\ out.is_json /\ out.value.kind = "object"
                /\ MemberAt(out.value.members, "_gaas_watermark") # {}
                /\ \A i \in MemberAt(out.value.members, "_gaas_watermark") :
                       out.value.members[i][2] = JStr(W)
                /\ OtherMembers(out.value) = OtherMembers(body.value)
           ELSE IF HasJson(calc.content_type) /\ body.is_json /\ body.value.kind = "array"
           THEN out = JsonBody(JObj(<< <<"data", body.value>>, <<"_gaas_watermark", JStr(W)>> >>))
           ELSE IF HasJson(calc.content_type) THEN TRUE
           ELSE IF HasHtml(calc.content_type)
           THEN out = TextBody(body.text \o <<Piece, Marker("html", W)>>)
           ELSE IF HasText(calc.content_type)
           THEN out = TextBody(body.text \o <<Piece, Marker("bracket", W)>>)
           ELSE out = body

\* A JSON object with a member of its own went through the dispatch with
\* watermarking enabled and a resolved key, and came back with the watermark.
C34_Witness ==
    /\ calc.fn = "dispatch" /\ calc.done
    /\ calc.watermarking_enabled /\ calc.key_resolved
    /\ HasJson(calc.content_type) /\ calc.body.is_json /\ calc.body.value.kind = "object"
    /\ OtherMembers(calc.body.value) # <<>>
    /\ calc.content # calc.body

(* ----------------------- limiter and wall clock ----------------------- *)
\* The system clock is set back by d seconds: check_rate_limit reads
\* time.time(), the wall clock, which an adjustment of the system time moves
\* backwards.
ClockSetBack(d) ==
    /\ ticks < MaxTicks
    /\ now >= d
    /\ now' = now - d
    /\ ticks' = ticks + 1
    /\ UNCHANGED <<takes, config_tables, log_tables, hash_tables, limiter, reqs, batchers,
                   verify_resp, revoked, calc, reconfigured, tasks, lock, chain, me_calls>>

\* One gateway process, one key: takes, reconfigurations, and a clock that
\* advances and is set back.
NextClock ==
    \/ \E d \in TickSteps : Tick(d)
    \/ \E d \in TickSteps : ClockSetBack(d)
    \/ LimiterCall(2)
    \/ \E lim \in RateInputs : update_api_key_rate_limit(1, lim[1], lim[2])

SpecClock == InitOneKey /\ [][NextClock]_vars

\* C35: bucket bounds. In every reachable state every bucket holds at least
\* 0 tokens and at most capacity tokens, whatever takes, elapsed times and
\* reconfigurations came before.
C35_BucketBounds ==
    \A w \in Workers :
        \A key \in DOMAIN rate_limit_store[w] :
            LET b == rate_limit_store[w][key]
            IN 0 <= b.tokens_w /\ b.tokens_w <= b.capacity * b.window


\* C36: batches keep up with commits. Whenever every request has completed,
\* fewer than MERKLE_BATCH_SIZE RequestHash rows are unbatched and the number
\* of MerkleRoot rows is the number of RequestHash rows divided by
\* MERKLE_BATCH_SIZE, rounded down.
C36_BatchesKeepUp ==
    Quiet =>
        /\ Cardinality({i \in DOMAIN request_hashes :
                           request_hashes[i].merkle_batch_id = None}) < MERKLE_BATCH_SIZE
        /\ Cardinality(DOMAIN merkle_roots)
               = Cardinality(DOMAIN request_hashes) \div MERKLE_BATCH_SIZE


(* ------------------------ user agent and blocking --------------------- *)
\* A User-Agent header by what analyze_user_agent looks at: whether it is
\* empty or shorter than 20 characters, and whether it matches one of
\* BOT_USER_AGENT_PATTERNS or one of the browser patterns.
UserAgents ==
    {ua \in [length : {"empty", "short", "long"}, bot_pattern : BOOLEAN,
             browser_pattern : BOOLEAN] :
        ua.length = "empty" => ~ua.bot_pattern /\ ~ua.browser_pattern}

\* (mutant) the browser patterns are looked for before the bot patterns.
analyze_user_agent_browser_first(user_agent) ==
    IF user_agent.length = "empty" THEN 8
    ELSE IF user_agent.length = "long" /\ user_agent.browser_pattern THEN 1
    ELSE IF user_agent.bot_pattern THEN 9
    ELSE IF user_agent.length = "short" THEN 7
    ELSE 5

\* analyze_user_agent, in tenths.
analyze_user_agent(user_agent) ==
    IF user_agent.length = "empty" THEN 8
    ELSE IF user_agent.bot_pattern THEN 9
    ELSE IF user_agent.length = "short" THEN 7
    ELSE IF user_agent.browser_pattern THEN 1
    ELSE 5

\* calculate_bot_score, classify_traffic and should_block (with blocking
\* enabled, at the default threshold) are about to be applied to a request
\* of the key.
InitUserAgent ==
    \E n \in RecentInputs, t \in NowInputs :
        /\ ScoreDatabase(n, 0, t)
        /\ calc \in [fn : {"user_agent"}, user_agent : UserAgents,
                     present_headers : PresentInputs, few_headers : BOOLEAN,
                     done : {FALSE}, ua_score : {0}, bot_score : {0},
                     classification : {"none"}, result : {<<FALSE, "none">>}]

apply_user_agent ==
    /\ calc.fn = "user_agent" /\ ~calc.done
    /\ LET ua_score == analyze_user_agent(calc.user_agent)
           header_score == analyze_header_entropy(calc.present_headers, calc.few_headers)
           bot_score == calculate_bot_score(ua_score, header_score, 2)
       IN calc' = [calc EXCEPT !.done = TRUE,
                               !.ua_score = ua_score,
                               !.bot_score = bot_score,
                               !.classification = classify_traffic(bot_score),
                               !.result = should_block(bot_score, TRUE, DefaultThreshold)]
    /\ UNCHANGED <<clock, config_tables, log_tables, hash_tables, limiter, reqs,
                   batchers, verify_resp, revoked, reconfigured, tasks, lock, chain,
                   me_calls>>

SpecUserAgent == InitUserAgent /\ [][apply_user_agent]_vars

\* C37: browser traffic is never bot-blocked. A user agent of at least 20
\* characters with a browser token and no bot pattern has the sub-score 0.1,
\* and a request with that sub-score scores below 0.7 whatever its request
\* rate and headers: it is not classified bot and not blocked at the
\* threshold 0.7. A request whose user agent matches a bot pattern is never
\* classified human.
C37_BrowserNeverBlocked ==
    (calc.fn = "user_agent" /\ calc.done) =>
        LET ua == calc.user_agent
        IN /\ calc.ua_score = 1
                <=> ua.length = "long" /\ ua.browser_pattern /\ ~ua.bot_pattern
           /\ calc.ua_score = 1
                => /\ calc.bot_score < 70
                   /\ calc.classification # "bot"
                   /\ calc.result[1] = FALSE /\ calc.result[2] # "blocked"
           /\ ua.bot_pattern => calc.classification # "human"

\* A browser user agent on a request with the highest rate signal and none
\* of the expected headers counted: scored 0.52 and let through.
C37_Witness ==
    /\ calc.fn = "user_agent" /\ calc.done
    /\ calc.ua_score = 1 /\ calc.bot_score = 52
    /\ calc.result = <<FALSE, "flagged">>


(* -------------------------- tokens once spent ------------------------- *)
\* The busy database with bot blocking enabled for service 1 and a second
\* service whose key is secret 3 and whose target_url has no http scheme (no
\* endpoint stores such a URL, the row is written to the table directly).
InitSpent ==
    /\ now = 0 /\ ticks = 0 /\ takes = 0 /\ next_secret = 4
    /\ users = Extend(Empty, 1, [api_key |-> 1, api_key_revealed |-> FALSE])
    /\ services = [i \in {1, 2} |-> [owner_id |-> 1, target_ok |-> (i = 1),
                                      watermarking_enabled |-> FALSE]]
    /\ service_configs = Extend(Empty, 1, [block_bots_enabled |-> TRUE,
                                            bot_threshold |-> DefaultThreshold])
    /\ api_keys = [i \in {1, 2} |->
                      IF i = 1 THEN [NewKey(2, 1) EXCEPT !.total_cost = PriorRequests * DefaultPrice]
                      ELSE NewKey(3, 2)]
    /\ usage_logs = [i \in 1..PriorRequests |-> [service_id |-> 1, api_key |-> 2, timestamp |-> 0]]
    /\ bot_logs = [i \in 1..PriorRequests |->
                      [service_id |-> 1, api_key |-> 2, bot_score |-> 5,
                       classification |-> "human", action_taken |-> "allowed", timestamp |-> 0]]
    /\ request_hashes = LongLog(PriorRequests).request_hashes
    /\ merkle_roots = LongLog(PriorRequests).merkle_roots
    /\ rate_limit_store =
           [w \in Workers |->
               IF w = 1
               THEN Extend(Empty, <<2, RATE_LIMIT_CAPACITY, RATE_LIMIT_WINDOW>>,
                           [FreshBucket(RATE_LIMIT_CAPACITY, RATE_LIMIT_WINDOW, 0)
                               EXCEPT !.tokens_w = (RATE_LIMIT_CAPACITY - PriorRequests)
                                                       * RATE_LIMIT_WINDOW])
               ELSE Empty]
    /\ obs = NoObs /\ reqs = Empty /\ batchers = [w \in Workers |-> Idle]
    /\ verify_resp = [on |-> FALSE] /\ revoked = {}
    /\ reconfigured = {} /\ tasks = Empty /\ lock = [w \in Workers |-> None]
    /\ chain = NoChain /\ me_calls = <<>> /\ calc = NoCalc

\* Requests without a key, with the key of service 1 and with the key of
\* service 2, for services 1 and 2 and for a service that does not exist,
\* from a browser and from a crawler, served one after the other; the
\* upstream answers or the dispatch fails.
NextSpent ==
    \/ Tick(20)
    \/ \E k \in {NoKey, 2, 3}, service_id \in 1..3, ua \in BotUAInputs :
          Quiet /\ proxy_arrive(1, k, service_id, ua, 10)
    \/ \E r \in DOMAIN reqs : proxy_handler(r)
    \/ \E r \in DOMAIN reqs, st \in StatusInputs : proxy_response(r, st)
    \/ \E r \in DOMAIN reqs, e \in ErrorInputs : proxy_transport_error(r, e)

SpecSpent == InitSpent /\ [][NextSpent]_vars

\* The request r came to the limiter in this step and was admitted.
Admitted(r) == Decided(r) /\ reqs'[r].detail \in {"target", "upstream"}

\* The bucket of request r after the step holds what it held after the
\* refill, less one token; no other bucket changed.
OneTokenSpent(r) ==
    LET w == reqs[r].worker
        lim == EffectiveLimits(reqs[r].api_key)
        key == BucketKey(reqs[r].api_key, lim)
        b == BucketAt(rate_limit_store[w], reqs[r].api_key, lim, now)
    IN /\ key \in DOMAIN rate_limit_store'[w]
       /\ rate_limit_store'[w][key].tokens_w = Refilled(b, lim[1], now) - lim[2]
       /\ \A v \in Workers : \A other \in DOMAIN rate_limit_store[v] :
              (v # w \/ other # key) =>
                  /\ other \in DOMAIN rate_limit_store'[v]
                  /\ rate_limit_store'[v][other] = rate_limit_store[v][other]

SpentStep ==
    /\ \A r \in DOMAIN reqs : Admitted(r) => OneTokenSpent(r)
    /\ rate_limit_store' # rate_limit_store
           => \E r \in DOMAIN reqs : Decided(r) /\ reqs'[r].detail \in {"limiter", "target", "upstream"}

\* C38: tokens are spent on admission and never refunded. A request the
\* limiter admits takes exactly one token from the bucket of its key, also
\* when its target_url is then rejected with 500; no later step of the
\* request (the upstream response, a transport error answered 502 or 504)
\* and no request answered 401, 403 or 404 changes any bucket.
C38_TokensSpent == [][SpentStep]_vars

\* A request of key 2 was admitted and failed with 504, and a request of key
\* 3 was admitted and rejected with 500: each bucket is one token short.
C38_Witness ==
    /\ \E r \in DOMAIN reqs : reqs[r].status = 504 /\ reqs[r].api_key = 2
    /\ \E r \in DOMAIN reqs : reqs[r].status = 500 /\ reqs[r].detail = "target"
    /\ rate_limit_store[1][<<2, RATE_LIMIT_CAPACITY, RATE_LIMIT_WINDOW>>].tokens_w
           = (RATE_LIMIT_CAPACITY - PriorRequests - 1) * RATE_LIMIT_WINDOW
    /\ rate_limit_store[1][<<3, RATE_LIMIT_CAPACITY, RATE_LIMIT_WINDOW>>].tokens_w
           = (RATE_LIMIT_CAPACITY - 1) * RATE_LIMIT_WINDOW


(* ------------------- failures and the session they leave -------------- *)
\* What raises once a flush has raised inside compute_and_store_merkle_root
\* ("flush": db.flush() after the MerkleRoot was added, or the flush of its
\* db.commit()): the batch is not stored, the session has rolled back and
\* takes no SQL until rollback() is called, and the handler around the call
\* swallows the exception without calling it; the next SQL of the request,
\* the reload of the expired ApiKey in the usage block, raises there, and
\* the handler of that block rolls back.
SessionFaults(failed) ==
    IF "flush" \in failed THEN failed \cup {"batch", "usage"} ELSE failed

\* The response of r is processed and the flush of the batch raises: the
\* row of r is the one that fills the batch.
proxy_response_flush_failure(r, response_status) ==
    /\ r \in DOMAIN reqs
    /\ HasActiveKey(reqs[r].api_key)
    /\ Cardinality({i \in DOMAIN request_hashes : request_hashes[i].merkle_batch_id = None})
           + 1 >= MERKLE_BATCH_SIZE
    /\ ResponseStep(r, response_status, SessionFaults({"flush"}), "disabled")

\* Requests with the service key served one after the other by a database
\* that accepts every statement, refuses the commit of the RequestHash row,
\* fails the query of the batch closure, or fails its flush.
NextSession ==
    \/ Tick(1)
    \/ Quiet /\ proxy_arrive(1, 2, 1, 1, 0)
    \/ \E r \in DOMAIN reqs : proxy_handler(r)
    \/ \E r \in DOMAIN reqs, st \in StatusInputs : proxy_response(r, st)
    \/ \E r \in DOMAIN reqs, st \in StatusInputs, step \in {"hash", "batch"} :
          proxy_response_env(r, st, {step}, "disabled")
    \/ \E r \in DOMAIN reqs, st \in StatusInputs : proxy_response_flush_failure(r, st)

SpecSession == InitOneKey /\ [][NextSession]_vars

IndependentStep ==
    \A r \in DOMAIN reqs :
        (/\ Completes(r) /\ Is2xx(reqs'[r].status)
         /\ reqs'[r].failed \cap {"hash", "batch", "flush"} # {}) =>
            LET added == DOMAIN usage_logs' \ DOMAIN usage_logs
                id == reqs'[r].key_id
            IN /\ Cardinality(added) = 1
               /\ \A l \in added : usage_logs'[l].api_key = reqs[r].api_key
               /\ api_keys'[id].total_cost
                      = api_keys[id].total_cost + api_keys[id].price_per_request
               /\ merkle_roots' = merkle_roots
               /\ \A i \in DOMAIN request_hashes' :
                      /\ i \in DOMAIN request_hashes => request_hashes'[i] = request_hashes[i]
                      /\ i \notin DOMAIN request_hashes => request_hashes'[i].merkle_batch_id = None

\* C39: side effects fail independently. When the commit of the RequestHash
\* row or the closing of the Merkle batch fails for a 2xx response, the
\* UsageLog row and the total_cost increment of the request are committed
\* all the same, and no MerkleRoot row and no batch assignment is committed
\* with them.
C39_IndependentFailures == [][IndependentStep]_vars


(* --------------------------------- C40 -------------------------------- *)
\* The response of a request whose key was revoked while the upstream call
\* was pending is processed in this step.
RevokedInFlight(r) ==
    /\ Completes(r) /\ reqs'[r].outcome = "response"
    /\ reqs[r].api_key \in revoked
    /\ KeyRows(reqs[r].api_key) # {}

RevokedInFlightStep ==
    \A r \in DOMAIN reqs :
        RevokedInFlight(r) =>
            LET usage == DOMAIN usage_logs' \ DOMAIN usage_logs
                hashes == DOMAIN request_hashes' \ DOMAIN request_hashes
            IN /\ reqs'[r].status \in StatusInputs
               /\ usage # {} =>
                     /\ Cardinality(usage) = 1
                     /\ Cardinality(hashes) = 1
                     /\ \A i \in hashes : request_hashes'[i].req = r
                     /\ \A i \in KeyRows(reqs[r].api_key) :
                           /\ i \in DOMAIN api_keys'
                           /\ api_keys'[i].total_cost
                                  = api_keys[i].total_cost + api_keys[i].price_per_request

\* C40: revocation during a request in flight. A request whose service key
\* is revoked after it was authenticated and admitted and before its
\* upstream response is processed still gets the upstream status, and its
\* UsageLog row comes with a RequestHash row of the request and the
\* total_cost increment of the key.
C40_RevokedInFlight == [][RevokedInFlightStep]_vars

====
